---------------------------- MODULE Spec2Model ----------------------------
(***************************************************************************)
(* Model of the email sorter of email-to-markdown (src/src/sort_emails.rs, *)
(* src/src/config.rs): the Ingest -> Score -> Classify pipeline of         *)
(* EmailSorter::analyze_email_file, the fold of sort_emails into SortStats,*)
(* the report of generate_report and the whitelist of SortConfig; and of   *)
(* with_retry (src/src/network.rs).                                        *)
(*                                                                         *)
(* A Rust String is a sequence of characters; a character is a one-symbol  *)
(* TLA+ string.  "U+00E9" and "U+00C9" stand for the two-byte characters   *)
(* e-acute and E-acute, so that str::len (a byte count) and the number of  *)
(* characters differ as they do in the program.                            *)
(***************************************************************************)
EXTENDS Integers, Sequences, FiniteSets, TLC

VARIABLES
  config,      \* EmailSorter.config : SortConfig
  clock,       \* Utc::now(), seconds since the Unix epoch (environment)
  files,       \* the file system under base_directory: path -> content
  pc,          \* position of the caller of the sorter
  entries,     \* sort_emails: the entries still to be visited by the for loop
  stats,       \* EmailSorter.stats : SortStats
  categories,  \* EmailSorter.categories : HashMap<Category, Vec<EmailData>>
  sorts,       \* number of sort_emails calls made on the sorter
  result,      \* what the last analyze_email_file call returned
  runs,        \* history: the content read, the clock and the result of each call
  report,      \* what the last generate_report call returned, None before the first
  retry,       \* network::with_retry: the configuration, the locals and the calls made
  summary,     \* what the last print_summary call printed, None before the first
  merge,       \* config::merge_account: the arguments and the Account returned
  store,       \* SortConfig::load / save: the file at config_path and the calls made
  fix          \* fix_yaml::scan_and_fix_directory: the arguments, the locals, FixStats

vars ==
  <<config, clock, files, pc, entries, stats, categories, sorts, result, runs, report,
    retry, summary, merge, store, fix>>

-----------------------------------------------------------------------------
(* Option<T> and Result<Option<EmailData>>                                  *)

None == <<>>
Some(v) == <<v>>
IsSome(o) == o # <<>>
Unwrap(o) == o[1]

-----------------------------------------------------------------------------
(* str primitives of the Rust standard library, as the program uses them    *)

UpperChars == <<"A","B","C","D","E","F","G","H","I","J","K","L","M",
                "N","O","P","Q","R","S","T","U","V","W","X","Y","Z","U+00C9">>
LowerChars == <<"a","b","c","d","e","f","g","h","i","j","k","l","m",
                "n","o","p","q","r","s","t","u","v","w","x","y","z","U+00E9">>

UpperSet == { UpperChars[i] : i \in 1..Len(UpperChars) }

LowerTable == [ c \in UpperSet |->
                  LowerChars[CHOOSE i \in 1..Len(UpperChars) : UpperChars[i] = c] ]

\* char::to_lowercase on one character
LowerChar(c) == IF c \in UpperSet THEN LowerTable[c] ELSE c

\* str::to_lowercase
to_lowercase(s) == [ i \in 1..Len(s) |-> LowerChar(s[i]) ]

TwoByteChars == {"U+00E9", "U+00C9"}

\* UTF-8 width of one character
ByteWidth(c) == IF c \in TwoByteChars THEN 2 ELSE 1

\* str::len : the length in BYTES, the sum of the widths of the characters
len(s) == Len(s) + Cardinality({ i \in 1..Len(s) : ByteWidth(s[i]) = 2 })

\* str::chars().count() : the length in characters
chars_count(s) == Len(s)

WhiteSpace == {" ", "\n", "\t", "\r"}

RECURSIVE trim_start(_)
trim_start(s) == IF s # <<>> /\ s[1] \in WhiteSpace THEN trim_start(Tail(s)) ELSE s

RECURSIVE trim_end(_)
trim_end(s) ==
  IF s # <<>> /\ s[Len(s)] \in WhiteSpace THEN trim_end(SubSeq(s, 1, Len(s) - 1)) ELSE s

\* str::trim
trim(s) == trim_end(trim_start(s))

\* str::starts_with
starts_with(s, p) == Len(p) <= Len(s) /\ SubSeq(s, 1, Len(p)) = p

\* str::ends_with
ends_with(s, p) == Len(p) <= Len(s) /\ SubSeq(s, Len(s) - Len(p) + 1, Len(s)) = p

\* str::contains (substring search; the empty pattern is found everywhere)
contains(s, p) ==
  \E i \in 0..(Len(s) - Len(p)) : SubSeq(s, i + 1, i + Len(p)) = p

\* position of the first occurrence of p in s at or after index from, 0 if none
FindFrom(s, p, from) ==
  LET hits == { i \in from..(Len(s) - Len(p) + 1) : SubSeq(s, i, i + Len(p) - 1) = p }
  IN  IF hits = {} THEN 0 ELSE CHOOSE i \in hits : \A j \in hits : i <= j

RECURSIVE split_lines(_)
\* the pieces of s between "\n" terminators; a final piece without terminator
\* is a line, an empty final piece is not
split_lines(s) ==
  IF s = <<>> THEN <<>>
  ELSE LET nl == FindFrom(s, <<"\n">>, 1)
       IN  IF nl = 0 THEN <<s>>
           ELSE <<SubSeq(s, 1, nl - 1)>> \o split_lines(SubSeq(s, nl + 1, Len(s)))

StripCR(l) == IF l # <<>> /\ l[Len(l)] = "\r" THEN SubSeq(l, 1, Len(l) - 1) ELSE l

\* str::lines : split on "\n", each line without its trailing "\r"
lines(s) == LET ls == split_lines(s) IN [ i \in 1..Len(ls) |-> StripCR(ls[i]) ]

RECURSIVE join(_, _)
\* [&str]::join(sep)
join(ls, sep) ==
  IF ls = <<>> THEN <<>>
  ELSE IF Len(ls) = 1 THEN ls[1]
  ELSE ls[1] \o sep \o join(Tail(ls), sep)

-----------------------------------------------------------------------------
(* string literals of src/src/sort_emails.rs                                *)

S_contract == <<"c","o","n","t","r","a","c","t">>
S_invoice == <<"i","n","v","o","i","c","e">>
S_legal == <<"l","e","g","a","l">>
S_urgent == <<"u","r","g","e","n","t">>
S_important == <<"i","m","p","o","r","t","a","n","t">>
S_confidential == <<"c","o","n","f","i","d","e","n","t","i","a","l">>
S_agreement == <<"a","g","r","e","e","m","e","n","t">>
S_signature == <<"s","i","g","n","a","t","u","r","e">>
S_payment == <<"p","a","y","m","e","n","t">>
S_newsletter == <<"n","e","w","s","l","e","t","t","e","r">>
S_bulletin == <<"b","u","l","l","e","t","i","n">>
S_digest == <<"d","i","g","e","s","t">>

DELIM == <<"-","-","-">>
NL == <<"\n">>

\* Display for Category and EmailSortType
CategoryLabel(c) ==
  CASE c = "Delete" -> "delete" [] c = "Summarize" -> "summarize" [] c = "Keep" -> "keep"

EmailSortTypes == {"Newsletter", "MailingList", "Group", "Direct", "Unknown"}

TypeLabel(t) ==
  CASE t = "Newsletter" -> "newsletter"
    [] t = "MailingList" -> "mailing_list"
    [] t = "Group" -> "group"
    [] t = "Direct" -> "direct"
    [] t = "Unknown" -> "unknown"

-----------------------------------------------------------------------------
(* SortConfig (src/src/config.rs)                                           *)

\* variant of is_whitelisted: the entries are compared as written
is_whitelisted_entry_as_written(sender_email) ==
  IF sender_email = <<>> THEN FALSE
  ELSE LET sender_lower == to_lowercase(sender_email)
       IN  \E i \in 1..Len(config.whitelist) :
             LET entry == config.whitelist[i]
             IN  \/ sender_lower = entry
                 \/ starts_with(entry, <<"@">>) /\ ends_with(sender_lower, entry)
                 \/ ends_with(entry, <<"@">>) /\ starts_with(sender_lower, entry)

\* SortConfig::is_whitelisted
is_whitelisted(sender_email) ==
  IF sender_email = <<>> THEN FALSE
  ELSE LET sender_lower == to_lowercase(sender_email)
       IN  \E i \in 1..Len(config.whitelist) :
             LET entry_lower == to_lowercase(config.whitelist[i])
             IN  \/ sender_lower = entry_lower
                 \/ starts_with(entry_lower, <<"@">>) /\ ends_with(sender_lower, entry_lower)
                 \/ ends_with(entry_lower, <<"@">>) /\ starts_with(sender_lower, entry_lower)

-----------------------------------------------------------------------------
(* EmailSorter: type detection, score, category                             *)

\* variant of determine_email_type: a record without subject is of Unknown type
determine_email_type_unknown_subject(subject) ==
  LET subject_lower == to_lowercase(subject)
  IN  IF subject = <<>> THEN "Unknown"
      ELSE IF \/ contains(subject_lower, S_newsletter)
              \/ contains(subject_lower, S_bulletin)
              \/ contains(subject_lower, S_digest)
      THEN "Newsletter"
      ELSE "Direct"

\* EmailSorter::determine_email_type (the frontmatter argument is unused)
determine_email_type(subject) ==
  LET subject_lower == to_lowercase(subject)
  IN  IF \/ contains(subject_lower, S_newsletter)
         \/ contains(subject_lower, S_bulletin)
         \/ contains(subject_lower, S_digest)
      THEN "Newsletter"
      ELSE "Direct"

\* v.iter().any(|k| text.contains(&k.to_lowercase()))
AnyContained(v, text) == \E i \in 1..Len(v) : contains(text, to_lowercase(v[i]))

\* v.iter().filter(|k| text.contains(&k.to_lowercase())).count()
CountContained(v, text) ==
  Cardinality({ i \in 1..Len(v) : contains(text, to_lowercase(v[i])) })

important_keywords ==
  <<S_contract, S_invoice, S_legal, S_urgent, S_important,
    S_confidential, S_agreement, S_signature, S_payment>>

keep_body_terms == <<S_contract, S_invoice, S_legal, S_urgent, S_important>>

\* variant of calculate_score: the keep_senders term is an else branch of the
\* delete_senders term
calculate_score_sender_else(email_data, body_text) ==
  LET type_key == TypeLabel(email_data.email_type)
      s1 == IF type_key \in DOMAIN config.type_weights
            THEN config.type_weights[type_key] ELSE 0
      s2 == IF IsSome(email_data.age_days)
            THEN IF Unwrap(email_data.age_days) <= config.recent_threshold_days
                 THEN s1 + 2
                 ELSE IF Unwrap(email_data.age_days) >= config.old_threshold_days
                      THEN s1 - 1 ELSE s1
            ELSE s1
      s3 == IF email_data.body_length <= config.small_email_threshold THEN s2 - 1
            ELSE IF email_data.body_length >= config.large_email_threshold THEN s2 + 1
            ELSE s2
      s4 == IF email_data.has_attachments
            THEN IF config.keep_with_attachments THEN s3 + 2 ELSE s3 - 1
            ELSE s3
      subject_lower == to_lowercase(email_data.subject)
      s5 == s4 - CountContained(config.delete_keywords, subject_lower)
      s6 == s5 + CountContained(config.keep_keywords, subject_lower) * 2
      sender_lower == to_lowercase(email_data.sender)
      s8 == IF AnyContained(config.delete_senders, sender_lower) THEN s6 - 3
            ELSE IF AnyContained(config.keep_senders, sender_lower) THEN s6 + 3
            ELSE s6
      body_lower == to_lowercase(body_text)
  IN  IF \E i \in 1..Len(important_keywords) : contains(body_lower, important_keywords[i])
      THEN s8 + 2 ELSE s8

\* variant of calculate_score: the two age contributions are independent tests
calculate_score_age_both(email_data, body_text) ==
  LET type_key == TypeLabel(email_data.email_type)
      s1 == IF type_key \in DOMAIN config.type_weights
            THEN config.type_weights[type_key] ELSE 0
      s2 == IF IsSome(email_data.age_days)
            THEN IF Unwrap(email_data.age_days) <= config.recent_threshold_days
                 THEN IF Unwrap(email_data.age_days) >= config.old_threshold_days
                      THEN s1 + 1 ELSE s1 + 2
                 ELSE IF Unwrap(email_data.age_days) >= config.old_threshold_days
                      THEN s1 - 1 ELSE s1
            ELSE s1
      s3 == IF email_data.body_length <= config.small_email_threshold THEN s2 - 1
            ELSE IF email_data.body_length >= config.large_email_threshold THEN s2 + 1
            ELSE s2
      s4 == IF email_data.has_attachments
            THEN IF config.keep_with_attachments THEN s3 + 2 ELSE s3 - 1
            ELSE s3
      subject_lower == to_lowercase(email_data.subject)
      delete_count == CountContained(config.delete_keywords, subject_lower)
      s5 == s4 - delete_count
      keep_count == CountContained(config.keep_keywords, subject_lower)
      s6 == s5 + keep_count * 2
      sender_lower == to_lowercase(email_data.sender)
      s7 == IF AnyContained(config.delete_senders, sender_lower) THEN s6 - 3 ELSE s6
      s8 == IF AnyContained(config.keep_senders, sender_lower) THEN s7 + 3 ELSE s7
      body_lower == to_lowercase(body_text)
  IN  IF \E i \in 1..Len(important_keywords) : contains(body_lower, important_keywords[i])
      THEN s8 + 2 ELSE s8

\* variant of calculate_score: one point for any number of delete keywords
calculate_score_any_keyword(email_data, body_text) ==
  LET type_key == TypeLabel(email_data.email_type)
      s1 == IF type_key \in DOMAIN config.type_weights
            THEN config.type_weights[type_key] ELSE 0
      s2 == IF IsSome(email_data.age_days)
            THEN IF Unwrap(email_data.age_days) <= config.recent_threshold_days
                 THEN s1 + 2
                 ELSE IF Unwrap(email_data.age_days) >= config.old_threshold_days
                      THEN s1 - 1 ELSE s1
            ELSE s1
      s3 == IF email_data.body_length <= config.small_email_threshold THEN s2 - 1
            ELSE IF email_data.body_length >= config.large_email_threshold THEN s2 + 1
            ELSE s2
      s4 == IF email_data.has_attachments
            THEN IF config.keep_with_attachments THEN s3 + 2 ELSE s3 - 1
            ELSE s3
      subject_lower == to_lowercase(email_data.subject)
      delete_count == IF AnyContained(config.delete_keywords, subject_lower) THEN 1 ELSE 0
      s5 == s4 - delete_count
      keep_count == CountContained(config.keep_keywords, subject_lower)
      s6 == s5 + keep_count * 2
      sender_lower == to_lowercase(email_data.sender)
      s7 == IF AnyContained(config.delete_senders, sender_lower) THEN s6 - 3 ELSE s6
      s8 == IF AnyContained(config.keep_senders, sender_lower) THEN s7 + 3 ELSE s7
      body_lower == to_lowercase(body_text)
  IN  IF \E i \in 1..Len(important_keywords) : contains(body_lower, important_keywords[i])
      THEN s8 + 2 ELSE s8

\* EmailSorter::calculate_score
calculate_score(email_data, body_text) ==
  LET type_key == TypeLabel(email_data.email_type)
      s1 == IF type_key \in DOMAIN config.type_weights
            THEN config.type_weights[type_key] ELSE 0
      s2 == IF IsSome(email_data.age_days)
            THEN IF Unwrap(email_data.age_days) <= config.recent_threshold_days
                 THEN s1 + 2
                 ELSE IF Unwrap(email_data.age_days) >= config.old_threshold_days
                      THEN s1 - 1 ELSE s1
            ELSE s1
      s3 == IF email_data.body_length <= config.small_email_threshold THEN s2 - 1
            ELSE IF email_data.body_length >= config.large_email_threshold THEN s2 + 1
            ELSE s2
      s4 == IF email_data.has_attachments
            THEN IF config.keep_with_attachments THEN s3 + 2 ELSE s3 - 1
            ELSE s3
      subject_lower == to_lowercase(email_data.subject)
      delete_count == CountContained(config.delete_keywords, subject_lower)
      s5 == s4 - delete_count
      keep_count == CountContained(config.keep_keywords, subject_lower)
      s6 == s5 + keep_count * 2
      sender_lower == to_lowercase(email_data.sender)
      s7 == IF AnyContained(config.delete_senders, sender_lower) THEN s6 - 3 ELSE s6
      s8 == IF AnyContained(config.keep_senders, sender_lower) THEN s7 + 3 ELSE s7
      body_lower == to_lowercase(body_text)
  IN  IF \E i \in 1..Len(important_keywords) : contains(body_lower, important_keywords[i])
      THEN s8 + 2 ELSE s8

\* the two indicator sets of determine_category
delete_indicators_of(email_data) ==
  \/ email_data.email_type = "Newsletter"
  \/ AnyContained(config.delete_keywords, to_lowercase(email_data.subject))
  \/ AnyContained(config.delete_senders, to_lowercase(email_data.sender))

keep_indicators_of(email_data, body_text) ==
  \/ AnyContained(config.keep_keywords, to_lowercase(email_data.subject))
  \/ AnyContained(config.keep_senders, to_lowercase(email_data.sender))
  \/ (email_data.has_attachments /\ config.keep_with_attachments)
  \/ \E i \in 1..Len(keep_body_terms) :
       contains(to_lowercase(body_text), keep_body_terms[i])

\* the last two rules of determine_category
by_score_or_length(email_data) ==
  IF \/ email_data.score >= 2
     \/ email_data.body_length > config.summarize_max_length
  THEN "Keep"
  ELSE "Summarize"

\* variant of determine_category: the whitelist is consulted after the delete rule
determine_category_whitelist_late(email_data, body_text) ==
  IF keep_indicators_of(email_data, body_text) THEN "Keep"
  ELSE IF delete_indicators_of(email_data) \/ email_data.score <= -2 THEN "Delete"
  ELSE IF is_whitelisted(email_data.sender) THEN "Keep"
  ELSE by_score_or_length(email_data)

\* variant of determine_category: the delete rule applies below -2 only
determine_category_below_threshold(email_data, body_text) ==
  IF is_whitelisted(email_data.sender) THEN "Keep"
  ELSE IF keep_indicators_of(email_data, body_text) THEN "Keep"
  ELSE IF delete_indicators_of(email_data) \/ email_data.score < -2 THEN "Delete"
  ELSE by_score_or_length(email_data)

\* variant of determine_category: the delete rule comes before the keep indicators
determine_category_delete_first(email_data, body_text) ==
  IF is_whitelisted(email_data.sender) THEN "Keep"
  ELSE IF delete_indicators_of(email_data) \/ email_data.score <= -2 THEN "Delete"
  ELSE IF keep_indicators_of(email_data, body_text) THEN "Keep"
  ELSE by_score_or_length(email_data)

\* variant of determine_category: the score and length rule comes before the delete
\* rule
determine_category_length_first(email_data, body_text) ==
  IF is_whitelisted(email_data.sender) THEN "Keep"
  ELSE IF keep_indicators_of(email_data, body_text) THEN "Keep"
  ELSE IF by_score_or_length(email_data) = "Keep" THEN "Keep"
  ELSE IF delete_indicators_of(email_data) \/ email_data.score <= -2 THEN "Delete"
  ELSE "Summarize"

\* EmailSorter::determine_category
determine_category(email_data, body_text) ==
  IF is_whitelisted(email_data.sender) THEN "Keep"
  ELSE
    LET subject_lower == to_lowercase(email_data.subject)
        sender_lower == to_lowercase(email_data.sender)
        body_lower == to_lowercase(body_text)
        delete_indicators ==
          \/ email_data.email_type = "Newsletter"
          \/ AnyContained(config.delete_keywords, subject_lower)
          \/ AnyContained(config.delete_senders, sender_lower)
        keep_indicators ==
          \/ AnyContained(config.keep_keywords, subject_lower)
          \/ AnyContained(config.keep_senders, sender_lower)
          \/ (email_data.has_attachments /\ config.keep_with_attachments)
          \/ \E i \in 1..Len(keep_body_terms) : contains(body_lower, keep_body_terms[i])
    IN  IF keep_indicators THEN "Keep"
        ELSE IF delete_indicators \/ email_data.score <= -2 THEN "Delete"
        ELSE IF \/ email_data.score >= 2
                \/ email_data.body_length > config.summarize_max_length
             THEN "Keep"
        ELSE "Summarize"

-----------------------------------------------------------------------------
(* extract_frontmatter (src/src/sort_emails.rs)                             *)

\* variant of ClosingLine: the last such line
ClosingLine_last(ls) ==
  LET hits == { i \in 2..Len(ls) : trim(ls[i]) = DELIM }
  IN  IF hits = {} THEN 0 ELSE CHOOSE i \in hits : \A j \in hits : j <= i

\* index of the first line after the opening one whose trim() is "---", 0 if none
ClosingLine(ls) ==
  LET hits == { i \in 2..Len(ls) : trim(ls[i]) = DELIM }
  IN  IF hits = {} THEN 0 ELSE CHOOSE i \in hits : \A j \in hits : i <= j

\* extract_frontmatter : None, or Some(<<frontmatter, body>>)
extract_frontmatter(content) ==
  IF ~starts_with(content, DELIM) THEN None
  ELSE LET ls == lines(content)
           k == ClosingLine(ls)
       IN  IF k = 0 THEN None
           ELSE Some(<<join(SubSeq(ls, 2, k - 1), NL), join(SubSeq(ls, k + 1, Len(ls)), NL)>>)

-----------------------------------------------------------------------------
(* serde_yaml::from_str::<Value> on the documents the exporter writes: a    *)
(* block mapping, one "key: value" entry per line, the value a plain scalar *)
(* or a flow sequence "[a, b]".  A Value is <<"Null">>, <<"String", s>> or  *)
(* <<"Mapping", entries>>, entries a sequence of <<key, value text>>.       *)

K_subject == <<"s","u","b","j","e","c","t">>
K_from == <<"f","r","o","m">>
K_date == <<"d","a","t","e">>
K_attachments == <<"a","t","t","a","c","h","m","e","n","t","s">>
K_tags == <<"t","a","g","s">>

NonBlank(ls) == SelectSeq(ls, LAMBDA l : trim(l) # <<>>)

\* position of the ':' that ends the key of a block-mapping entry, 0 if none
KeyEnd(l) ==
  LET hits == { i \in 2..Len(l) : l[i] = ":" /\ (i = Len(l) \/ l[i + 1] = " ") }
  IN  IF l = <<>> \/ l[1] \in WhiteSpace \/ hits = {} THEN 0
      ELSE CHOOSE i \in hits : \A j \in hits : i <= j

IsEntry(l) == KeyEnd(l) # 0

EntryOf(l) == <<SubSeq(l, 1, KeyEnd(l) - 1), trim(SubSeq(l, KeyEnd(l) + 1, Len(l)))>>

\* characters that cannot start a plain scalar
Indicators == {"[", "]", "{", "}", ",", "#", "&", "*", "!", "|", ">", "'", "%", "@"}

\* serde_yaml::from_str : <<"Err">> or <<"Ok", value>>
yaml_from_str(text) ==
  LET ls == NonBlank(lines(text))
  IN  IF ls = <<>> THEN <<"Ok", <<"Null">>>>
      ELSE IF \A i \in 1..Len(ls) : IsEntry(ls[i])
           THEN <<"Ok", <<"Mapping", [ i \in 1..Len(ls) |-> EntryOf(ls[i]) ]>>>>
      ELSE IF Len(ls) = 1 /\ trim(ls[1])[1] \notin Indicators /\ ~contains(ls[1], <<":", " ">>)
           THEN <<"Ok", <<"String", trim(ls[1])>>>>
      ELSE <<"Err">>

\* Value::get(key) : None, or Some(value text)
yaml_get(v, key) ==
  IF v[1] # "Mapping" THEN None
  ELSE LET hits == { i \in 1..Len(v[2]) : v[2][i][1] = key }
       IN  IF hits = {} THEN None
           ELSE Some(v[2][CHOOSE i \in hits : \A j \in hits : i <= j][2])

IsFlowSeq(t) == starts_with(t, <<"[">>) /\ ends_with(t, <<"]">>)

\* .and_then(|v| v.as_str()).unwrap_or("")
str_or_empty(o) ==
  IF IsSome(o) /\ ~IsFlowSeq(Unwrap(o)) THEN Unwrap(o) ELSE <<>>

RECURSIVE split_commas(_)
split_commas(t) ==
  LET c == FindFrom(t, <<",">>, 1)
  IN  IF c = 0 THEN <<trim(t)>>
      ELSE <<trim(SubSeq(t, 1, c - 1))>> \o split_commas(SubSeq(t, c + 1, Len(t)))

\* .and_then(|v| v.as_sequence()) : None, or Some(items)
as_sequence(o) ==
  IF IsSome(o) /\ IsFlowSeq(Unwrap(o))
  THEN LET inner == trim(SubSeq(Unwrap(o), 2, Len(Unwrap(o)) - 1))
       IN  Some(IF inner = <<>> THEN <<>> ELSE split_commas(inner))
  ELSE None

-----------------------------------------------------------------------------
(* parse_date (src/src/sort_emails.rs) and the chrono calls it makes, on    *)
(* zero-padded fields.  A DateTime<FixedOffset> is [secs, offset]: the      *)
(* instant in seconds since the Unix epoch and the offset east of UTC.      *)

Digits == <<"0","1","2","3","4","5","6","7","8","9">>
DigitSet == { Digits[i] : i \in 1..10 }
DigitVal == [ c \in DigitSet |-> (CHOOSE i \in 1..10 : Digits[i] = c) - 1 ]

IsDigits(t) == \A i \in 1..Len(t) : t[i] \in DigitSet

RECURSIVE Num(_)
Num(t) == IF t = <<>> THEN 0 ELSE 10 * Num(SubSeq(t, 1, Len(t) - 1)) + DigitVal[t[Len(t)]]

SECS_PER_DAY == 86400

IsLeap(y) == (y % 4 = 0 /\ y % 100 # 0) \/ y % 400 = 0

DaysInMonth(y, m) ==
  IF m = 2 THEN (IF IsLeap(y) THEN 29 ELSE 28)
  ELSE IF m \in {4, 6, 9, 11} THEN 30 ELSE 31

ValidYmd(y, m, d) == m \in 1..12 /\ d >= 1 /\ d <= DaysInMonth(y, m)

\* days from 1970-01-01 to the civil date y-m-d (proleptic Gregorian, y >= 1)
DaysFromCivil(y, m, d) ==
  LET yy == IF m <= 2 THEN y - 1 ELSE y
      era == yy \div 400
      yoe == yy - era * 400
      mp == IF m > 2 THEN m - 3 ELSE m + 9
      doy == (153 * mp + 2) \div 5 + d - 1
      doe == yoe * 365 + yoe \div 4 - yoe \div 100 + doy
  IN  era * 146097 + doe - 719468

\* naive.and_hms_opt(0, 0, 0)?.and_local_timezone(FixedOffset::east_opt(0)?).single()?
MidnightUtc(y, m, d) == [secs |-> DaysFromCivil(y, m, d) * SECS_PER_DAY, offset |-> 0]

\* DateTime::parse_from_rfc3339 on "YYYY-MM-DDTHH:MM:SS+HH:MM" and "...Z"
parse_from_rfc3339(t) ==
  LET shape == /\ Len(t) \in {20, 25}
               /\ IsDigits(SubSeq(t, 1, 4)) /\ t[5] = "-" /\ IsDigits(SubSeq(t, 6, 7))
               /\ t[8] = "-" /\ IsDigits(SubSeq(t, 9, 10)) /\ t[11] \in {"T", "t", " "}
               /\ IsDigits(SubSeq(t, 12, 13)) /\ t[14] = ":" /\ IsDigits(SubSeq(t, 15, 16))
               /\ t[17] = ":" /\ IsDigits(SubSeq(t, 18, 19))
               /\ IF Len(t) = 20 THEN t[20] \in {"Z", "z"}
                  ELSE /\ t[20] \in {"+", "-"} /\ IsDigits(SubSeq(t, 21, 22))
                       /\ t[23] = ":" /\ IsDigits(SubSeq(t, 24, 25))
  IN  IF ~shape THEN None
      ELSE LET y == Num(SubSeq(t, 1, 4))
               m == Num(SubSeq(t, 6, 7))
               d == Num(SubSeq(t, 9, 10))
               hh == Num(SubSeq(t, 12, 13))
               mi == Num(SubSeq(t, 15, 16))
               ss == Num(SubSeq(t, 18, 19))
               off == IF Len(t) = 20 THEN 0
                      ELSE (IF t[20] = "-" THEN -1 ELSE 1)
                           * (Num(SubSeq(t, 21, 22)) * 3600 + Num(SubSeq(t, 24, 25)) * 60)
           IN  IF ValidYmd(y, m, d) /\ hh <= 23 /\ mi <= 59 /\ ss <= 59
               THEN Some([secs |-> DaysFromCivil(y, m, d) * SECS_PER_DAY
                                     + hh * 3600 + mi * 60 + ss - off,
                          offset |-> off])
               ELSE None

\* NaiveDate::parse_from_str(t, "%Y-%m-%d")
parse_ymd(t) ==
  IF /\ Len(t) = 10 /\ IsDigits(SubSeq(t, 1, 4)) /\ t[5] = "-"
     /\ IsDigits(SubSeq(t, 6, 7)) /\ t[8] = "-" /\ IsDigits(SubSeq(t, 9, 10))
     /\ ValidYmd(Num(SubSeq(t, 1, 4)), Num(SubSeq(t, 6, 7)), Num(SubSeq(t, 9, 10)))
  THEN Some(<<Num(SubSeq(t, 1, 4)), Num(SubSeq(t, 6, 7)), Num(SubSeq(t, 9, 10))>>)
  ELSE None

\* NaiveDate::parse_from_str(t, "%Y-%m-%d %H:%M:%S") : the time is parsed and dropped
parse_ymd_hms(t) ==
  IF /\ Len(t) = 19 /\ t[11] = " "
     /\ IsDigits(SubSeq(t, 12, 13)) /\ t[14] = ":" /\ IsDigits(SubSeq(t, 15, 16))
     /\ t[17] = ":" /\ IsDigits(SubSeq(t, 18, 19))
     /\ Num(SubSeq(t, 12, 13)) <= 23 /\ Num(SubSeq(t, 15, 16)) <= 59
     /\ Num(SubSeq(t, 18, 19)) <= 59
  THEN parse_ymd(SubSeq(t, 1, 10))
  ELSE None

\* the shape "NN/NN/NNNN" shared by "%d/%m/%Y" and "%m/%d/%Y"
SlashShape(t) ==
  /\ Len(t) = 10 /\ IsDigits(SubSeq(t, 1, 2)) /\ t[3] = "/"
  /\ IsDigits(SubSeq(t, 4, 5)) /\ t[6] = "/" /\ IsDigits(SubSeq(t, 7, 10))

\* NaiveDate::parse_from_str(t, "%d/%m/%Y")
parse_dmy(t) ==
  IF SlashShape(t)
     /\ ValidYmd(Num(SubSeq(t, 7, 10)), Num(SubSeq(t, 4, 5)), Num(SubSeq(t, 1, 2)))
  THEN Some(<<Num(SubSeq(t, 7, 10)), Num(SubSeq(t, 4, 5)), Num(SubSeq(t, 1, 2))>>)
  ELSE None

\* NaiveDate::parse_from_str(t, "%m/%d/%Y")
parse_mdy(t) ==
  IF SlashShape(t)
     /\ ValidYmd(Num(SubSeq(t, 7, 10)), Num(SubSeq(t, 1, 2)), Num(SubSeq(t, 4, 5)))
  THEN Some(<<Num(SubSeq(t, 7, 10)), Num(SubSeq(t, 1, 2)), Num(SubSeq(t, 4, 5))>>)
  ELSE None

\* parse_date
parse_date(date_str) ==
  IF date_str = <<>> THEN None
  ELSE IF IsSome(parse_from_rfc3339(date_str)) THEN parse_from_rfc3339(date_str)
  ELSE LET naive ==
             IF IsSome(parse_ymd(date_str)) THEN parse_ymd(date_str)
             ELSE IF IsSome(parse_ymd_hms(date_str)) THEN parse_ymd_hms(date_str)
             ELSE IF IsSome(parse_dmy(date_str)) THEN parse_dmy(date_str)
             ELSE parse_mdy(date_str)
       IN  IF IsSome(naive)
           THEN Some(MidnightUtc(Unwrap(naive)[1], Unwrap(naive)[2], Unwrap(naive)[3]))
           ELSE None

\* integer division of Rust (truncating toward zero)
TruncDiv(a, b) == IF a >= 0 THEN a \div b ELSE -((-a) \div b)

\* variant of AgeDays: the age is counted in hours
AgeDays_in_hours(now, d) == TruncDiv(now - d.secs, 3600)

\* now.signed_duration_since(d.with_timezone(&Utc)).num_days()
AgeDays(now, d) == TruncDiv(now - d.secs, SECS_PER_DAY)

-----------------------------------------------------------------------------
(* EmailSorter::analyze_email_file                                          *)

\* Path::file_name : the text after the last "/" of a path
file_name_of(file_path) ==
  LET slashes == { i \in 1..Len(file_path) : file_path[i] = "/" }
      last == IF slashes = {} THEN 0 ELSE CHOOSE i \in slashes : \A j \in slashes : j <= i
  IN  SubSeq(file_path, last + 1, Len(file_path))

\* the EmailData built before scoring (score 0, category Summarize)
BuildEmailData(file_path, content, fm, body_text, now) ==
  LET subject == str_or_empty(yaml_get(fm, K_subject))
      sender == str_or_empty(yaml_get(fm, K_from))
      date_str == str_or_empty(yaml_get(fm, K_date))
      att == as_sequence(yaml_get(fm, K_attachments))
      attachments == IF IsSome(att) THEN Len(Unwrap(att)) ELSE 0
      tg == as_sequence(yaml_get(fm, K_tags))
      date == parse_date(date_str)
  IN  [ file_path |-> file_path,
        file_name |-> file_name_of(file_path),
        file_size |-> len(content),
        body_length |-> len(body_text),
        has_attachments |-> attachments > 0,
        attachment_count |-> attachments,
        date |-> date,
        age_days |-> IF IsSome(date) THEN Some(AgeDays(now, Unwrap(date))) ELSE None,
        sender |-> sender,
        recipients |-> <<>>,
        subject |-> subject,
        tags |-> IF IsSome(tg) THEN Unwrap(tg) ELSE <<>>,
        email_type |-> determine_email_type(subject),
        score |-> 0,
        category |-> "Summarize" ]

\* the tail of analyze_email_file: score, then category from the scored record
ScoreAndClassify(email_data, body_text) ==
  LET scored == [email_data EXCEPT !.score = calculate_score(email_data, body_text)]
  IN  [scored EXCEPT !.category = determine_category(scored, body_text)]

\* the content of a file fs::read_to_string cannot read (not UTF-8, no permission)
Unreadable == <<"Unreadable">>

ResErr == [kind |-> "Err"]
ResNone == [kind |-> "None"]
ResSome(d) == [kind |-> "Some", data |-> d]

\* variant of AnalyzeContent: the whole content is scored and classified as the body
AnalyzeContent_whole_content(file_path, content, now) ==
  IF content = Unreadable THEN ResErr
  ELSE IF len(trim(content)) < 10 THEN ResNone
  ELSE IF ~starts_with(content, DELIM) THEN ResNone
  ELSE LET parts == extract_frontmatter(content)
       IN  IF ~IsSome(parts) THEN ResNone
           ELSE LET fm == yaml_from_str(Unwrap(parts)[1])
                    body_text == Unwrap(parts)[2]
                IN  IF fm[1] = "Err" THEN ResNone
                    ELSE ResSome(ScoreAndClassify(
                                   BuildEmailData(file_path, content, fm[2], body_text, now),
                                   content))

\* variant of AnalyzeContent: a metadata block that does not parse is an error
AnalyzeContent_yaml_error(file_path, content, now) ==
  IF content = Unreadable THEN ResErr
  ELSE IF len(trim(content)) < 10 THEN ResNone
  ELSE IF ~starts_with(content, DELIM) THEN ResNone
  ELSE LET parts == extract_frontmatter(content)
       IN  IF ~IsSome(parts) THEN ResNone
           ELSE LET fm == yaml_from_str(Unwrap(parts)[1])
                    body_text == Unwrap(parts)[2]
                IN  IF fm[1] = "Err" THEN ResErr
                    ELSE ResSome(ScoreAndClassify(
                                   BuildEmailData(file_path, content, fm[2], body_text, now),
                                   body_text))

\* analyze_email_file on the content read from file_path, Utc::now() being now
AnalyzeContent(file_path, content, now) ==
  IF content = Unreadable THEN ResErr
  ELSE IF len(trim(content)) < 10 THEN ResNone
  ELSE IF ~starts_with(content, DELIM) THEN ResNone
  ELSE LET parts == extract_frontmatter(content)
       IN  IF ~IsSome(parts) THEN ResNone
           ELSE LET fm == yaml_from_str(Unwrap(parts)[1])
                    body_text == Unwrap(parts)[2]
                IN  IF fm[1] = "Err" THEN ResNone
                    ELSE ResSome(ScoreAndClassify(
                                   BuildEmailData(file_path, content, fm[2], body_text, now),
                                   body_text))

\* EmailSorter::analyze_email_file(&self, file_path)
analyze_email_file(file_path) == AnalyzeContent(file_path, files[file_path], clock)

-----------------------------------------------------------------------------
(* SortStats, EmailSorter::new and the fold of sort_emails                  *)

EmptyMap == [ k \in {} |-> 0 ]

\* *map.entry(key).or_insert(0) += 1
Increment(map, key) ==
  [ k \in DOMAIN map \cup {key} |->
      IF k = key THEN (IF key \in DOMAIN map THEN map[key] + 1 ELSE 1) ELSE map[k] ]

\* map.entry(key).or_default().push(v)
PushTo(map, key, v) ==
  [ k \in DOMAIN map \cup {key} |->
      IF k = key THEN (IF key \in DOMAIN map THEN Append(map[key], v) ELSE <<v>>)
      ELSE map[k] ]

\* the civil date <<y, m, d>> of a day number (inverse of DaysFromCivil)
CivilFromDays(z) ==
  LET zz == z + 719468
      era == zz \div 146097
      doe == zz - era * 146097
      yoe == (doe - doe \div 1460 + doe \div 36524 - doe \div 146096) \div 365
      doy == doe - (365 * yoe + yoe \div 4 - yoe \div 100)
      mp == (5 * doy + 2) \div 153
      d == doy - (153 * mp + 2) \div 5 + 1
      m == IF mp < 10 THEN mp + 3 ELSE mp - 9
  IN  <<(IF m <= 2 THEN yoe + era * 400 + 1 ELSE yoe + era * 400), m, d>>

\* the local civil date of a DateTime<FixedOffset>
LocalDate(dt) == CivilFromDays((dt.secs + dt.offset) \div SECS_PER_DAY)

\* n written with exactly w digits (n < 10^w)
RECURSIVE Pad(_, _)
Pad(n, w) == IF w = 0 THEN <<>> ELSE Pad(n \div 10, w - 1) \o <<Digits[(n % 10) + 1]>>

\* date.format("%Y-%m").to_string()
format_ym(dt) == Pad(LocalDate(dt)[1], 4) \o <<"-">> \o Pad(LocalDate(dt)[2], 2)

\* variant of NewStats: by_category is not seeded with the three labels
NewStats_unseeded ==
  [ total_emails |-> 0,
    by_category |-> EmptyMap,
    by_type |-> EmptyMap,
    by_sender |-> EmptyMap,
    by_date |-> EmptyMap ]

\* EmailSorter::new : the statistics of a fresh sorter
NewStats ==
  [ total_emails |-> 0,
    by_category |-> [ k \in {"delete", "summarize", "keep"} |-> 0 ],
    by_type |-> EmptyMap,
    by_sender |-> EmptyMap,
    by_date |-> EmptyMap ]

\* variant of FoldStats: a record without sender is not counted in by_sender
FoldStats_named_senders(st, email_data) ==
  [ total_emails |-> st.total_emails + 1,
    by_category |-> Increment(st.by_category, CategoryLabel(email_data.category)),
    by_type |-> Increment(st.by_type, TypeLabel(email_data.email_type)),
    by_sender |-> IF email_data.sender = <<>> THEN st.by_sender
                  ELSE Increment(st.by_sender, email_data.sender),
    by_date |-> IF IsSome(email_data.date)
                THEN Increment(st.by_date, format_ym(Unwrap(email_data.date)))
                ELSE st.by_date ]

\* variant of FoldStats: the sender count is set from the running total
FoldStats_running_total(st, email_data) ==
  [ total_emails |-> st.total_emails + 1,
    by_category |-> Increment(st.by_category, CategoryLabel(email_data.category)),
    by_type |-> Increment(st.by_type, TypeLabel(email_data.email_type)),
    by_sender |-> [ k \in DOMAIN st.by_sender \cup {email_data.sender} |->
                      IF k = email_data.sender THEN st.total_emails + 1
                      ELSE st.by_sender[k] ],
    by_date |-> IF IsSome(email_data.date)
                THEN Increment(st.by_date, format_ym(Unwrap(email_data.date)))
                ELSE st.by_date ]

\* variant of FoldStats: a record without a date is counted under "Unknown"
FoldStats_undated_month(st, email_data) ==
  [ total_emails |-> st.total_emails + 1,
    by_category |-> Increment(st.by_category, CategoryLabel(email_data.category)),
    by_type |-> Increment(st.by_type, TypeLabel(email_data.email_type)),
    by_sender |-> Increment(st.by_sender, email_data.sender),
    by_date |-> IF IsSome(email_data.date)
                THEN Increment(st.by_date, format_ym(Unwrap(email_data.date)))
                ELSE Increment(st.by_date, <<"U","n","k","n","o","w","n">>) ]

\* the body of the for loop of sort_emails for one record
FoldStats(st, email_data) ==
  [ total_emails |-> st.total_emails + 1,
    by_category |-> Increment(st.by_category, CategoryLabel(email_data.category)),
    by_type |-> Increment(st.by_type, TypeLabel(email_data.email_type)),
    by_sender |-> Increment(st.by_sender, email_data.sender),
    by_date |-> IF IsSome(email_data.date)
                THEN Increment(st.by_date, format_ym(Unwrap(email_data.date)))
                ELSE st.by_date ]

\* variant of FoldCategories: every record is pushed to the Summarize list
FoldCategories_one_list(cats, email_data) == PushTo(cats, "Summarize", email_data)

\* self.categories.entry(category).or_default().push(email_data)
FoldCategories(cats, email_data) == PushTo(cats, email_data.category, email_data)

\* Path::extension : the text after the last "." of the file name, None when the
\* name has no "." or only a leading one
extension(file_path) ==
  LET name == file_name_of(file_path)
      dots == { i \in 2..Len(name) : name[i] = "." }
  IN  IF dots = {} THEN None
      ELSE Some(SubSeq(name, (CHOOSE i \in dots : \A j \in dots : j <= i) + 1, Len(name)))

S_md == <<"m","d">>
S_attachments == <<"a","t","t","a","c","h","m","e","n","t","s">>

\* the filter of sort_emails over the walked entries
IsScanned(file_path) ==
  /\ extension(file_path) = Some(S_md)
  /\ ~contains(file_path, S_attachments)

-----------------------------------------------------------------------------
(* EmailSorter::generate_report                                             *)

\* the quotient n / d rounded to the nearest integer, ties to even: the rounding of
\* {:.1} on a value that ends in 25 or 75 hundredths, which an f64 holds exactly
RoundHalfEven(n, d) ==
  LET q == n \div d
      r == n % d
  IN  IF 2 * r < d THEN q
      ELSE IF 2 * r > d THEN q + 1
      ELSE IF q % 2 = 0 THEN q ELSE q + 1

\* the decimal digits of a natural number
RECURSIVE Decimal(_)
Decimal(n) == IF n < 10 THEN <<Digits[n + 1]>> ELSE Decimal(n \div 10) \o <<Digits[(n % 10) + 1]>>

\* variant of format_pct: the digits after the first decimal are dropped
format_pct_truncated(count, total) ==
  LET tenths == (count * 100 * 10) \div total
  IN  Decimal(tenths \div 10) \o <<".">> \o <<Digits[(tenths % 10) + 1]>>

\* format!("{:.1}", (count * 100) as f64 / total)
format_pct(count, total) ==
  LET tenths == RoundHalfEven(count * 100 * 10, total)
  IN  Decimal(tenths \div 10) \o <<".">> \o <<Digits[(tenths % 10) + 1]>>

T_deleted == <<"%"," ","o","f"," ","e","m","a","i","l","s"," ","c","a","n"," ","b","e"," ","d","e","l","e","t","e","d">>
T_summarized == <<"%"," ","o","f"," ","e","m","a","i","l","s"," ","c","a","n"," ","b","e"," ","s","u","m","m","a","r","i","z","e","d">>
T_kept == <<"%"," ","o","f"," ","e","m","a","i","l","s"," ","s","h","o","u","l","d"," ","b","e"," ","k","e","p","t"," ","i","n"," ","f","u","l","l">>

\* by_category.get(label).unwrap_or(&0)
CountOf(map, key) == IF key \in DOMAIN map THEN map[key] ELSE 0

\* the recommendations of generate_report
Recommendations(st) ==
  IF st.total_emails > 0
  THEN [ k \in {"delete", "summarize", "keep"} |->
           format_pct(CountOf(st.by_category, k), st.total_emails)
             \o (CASE k = "delete" -> T_deleted
                   [] k = "summarize" -> T_summarized
                   [] k = "keep" -> T_kept) ]
  ELSE EmptyMap

\* variant of InsertByCount: the comparison is a.1.cmp(b.1), smallest count first
RECURSIVE InsertByCount_ascending(_, _)
InsertByCount_ascending(sorted, x) ==
  IF sorted = <<>> THEN <<x>>
  ELSE IF Head(sorted)[2] <= x[2]
       THEN <<Head(sorted)>> \o InsertByCount_ascending(Tail(sorted), x)
  ELSE <<x>> \o sorted

\* the place of the pair x in a list sorted by sort_by(|a, b| b.1.cmp(a.1)): after
\* every pair whose count is not smaller (the sort is stable)
RECURSIVE InsertByCount(_, _)
InsertByCount(sorted, x) ==
  IF sorted = <<>> THEN <<x>>
  ELSE IF Head(sorted)[2] >= x[2] THEN <<Head(sorted)>> \o InsertByCount(Tail(sorted), x)
  ELSE <<x>> \o sorted

\* sender_counts.sort_by(|a, b| b.1.cmp(a.1))
RECURSIVE sort_by_count_desc(_)
sort_by_count_desc(pairs) ==
  IF pairs = <<>> THEN <<>>
  ELSE InsertByCount(sort_by_count_desc(SubSeq(pairs, 1, Len(pairs) - 1)), pairs[Len(pairs)])

\* Iterator::take(n)
take(q, n) == SubSeq(q, 1, IF Len(q) < n THEN Len(q) ELSE n)

TOP_SENDERS == 10

\* the top senders of generate_report, by_sender.iter() yielding the keys in the
\* order iteration
top_senders(by_sender, iteration) ==
  take(sort_by_count_desc([ i \in 1..Len(iteration) |-> <<iteration[i], by_sender[iteration[i]]>> ]),
       TOP_SENDERS)

BaseDirectory == <<"m","a","i","l">>
S_Unknown == <<"U","n","k","n","o","w","n">>

\* Path::strip_prefix(base_directory).unwrap_or(file_path)
strip_prefix(file_path) ==
  IF starts_with(file_path, BaseDirectory \o <<"/">>)
  THEN SubSeq(file_path, Len(BaseDirectory) + 2, Len(file_path))
  ELSE file_path

\* d.format("%Y-%m-%d").to_string()
format_ymd(dt) ==
  Pad(LocalDate(dt)[1], 4) \o <<"-">> \o Pad(LocalDate(dt)[2], 2) \o <<"-">>
    \o Pad(LocalDate(dt)[3], 2)

\* the EmailSummary of a record
EmailSummaryOf(e) ==
  [ file |-> strip_prefix(e.file_path),
    subject |-> e.subject,
    sender |-> e.sender,
    date |-> IF IsSome(e.date) THEN format_ymd(Unwrap(e.date)) ELSE S_Unknown,
    score |-> e.score,
    email_type |-> TypeLabel(e.email_type),
    size |-> e.file_size,
    attachments |-> e.attachment_count ]

\* the per-category summaries of generate_report
CategoryDetails(cats) ==
  [ label \in { CategoryLabel(c) : c \in DOMAIN cats } |->
      LET c == CHOOSE k \in DOMAIN cats : CategoryLabel(k) = label
      IN  [ i \in 1..Len(cats[c]) |-> EmailSummaryOf(cats[c][i]) ] ]

\* EmailSorter::generate_report, by_sender.iter() yielding the keys in the order
\* iteration
generate_report(st, cats, iteration) ==
  [ summary |-> [ total_emails |-> st.total_emails,
                  categories |-> st.by_category,
                  recommendations |-> Recommendations(st) ],
    details |-> [ by_type |-> st.by_type,
                  by_sender |-> top_senders(st.by_sender, iteration),
                  by_date |-> st.by_date ],
    categories |-> CategoryDetails(cats) ]

\* the summaries print_summary lists at most
SUMMARY_SENDERS == 5

\* EmailSorter::print_summary: what the println! calls write, by_type.iter() and
\* by_sender.iter() yielding the keys in the orders type_iteration and
\* sender_iteration
print_summary(st, type_iteration, sender_iteration) ==
  [ total_emails |-> st.total_emails,
    to_delete |-> CountOf(st.by_category, "delete"),
    to_summarize |-> CountOf(st.by_category, "summarize"),
    to_keep |-> CountOf(st.by_category, "keep"),
    percentages |->
      IF st.total_emails > 0
      THEN Some(<<format_pct(CountOf(st.by_category, "delete"), st.total_emails),
                  format_pct(CountOf(st.by_category, "summarize"), st.total_emails),
                  format_pct(CountOf(st.by_category, "keep"), st.total_emails)>>)
      ELSE None,
    types |-> sort_by_count_desc([ i \in 1..Len(type_iteration) |->
                                     <<type_iteration[i], st.by_type[type_iteration[i]]>> ]),
    senders |-> take(sort_by_count_desc([ i \in 1..Len(sender_iteration) |->
                       <<sender_iteration[i], st.by_sender[sender_iteration[i]]>> ]),
                     SUMMARY_SENDERS) ]

-----------------------------------------------------------------------------
(* Inputs: stored records in the format the exporter writes, configurations *)
(* and instants.                                                            *)

Snd_spam == <<"s","p","a","m","@","x",".","i","o">>
Snd_boss == <<"B","o","s","s","@","c","o",".","i","o">>
Snd_eve == <<"e","v","e","@","c","o",".","i","o">>
Sub_hello == <<"H","e","l","l","o">>
Sub_urgent_sale == <<"U","R","G","E","N","T"," ","s","a","l","e">>
Sub_big_sale == <<"b","i","g"," ","s","a","l","e">>
Sub_digest == <<"W","e","e","k","l","y"," ","D","i","g","e","s","t">>
Sub_bulletin == <<"B","U","L","L","E","T","I","N"," ","7">>
Body_small == <<"h","i">>
Body_contract == <<"C","O","N","T","R","A","C","T"," ","p","a","y","m","e","n","t">>
Body_payment == <<"s","e","e"," ","p","a","y","m","e","n","t"," ","o","k">>
Body_nothing == <<"s","e","e"," ","n","o","t","h","i","n","g"," ","o","k">>
Body_long == <<"l","o","r","e","m"," ","i","p","s","u","m"," ","d","o","l","o","r"," ","s","i","t"," ","a","m","e","t">>
Date_old == <<"2","0","2","4","-","0","1","-","1","5">>
Date_recent == <<"2","0","2","4","-","0","2","-","2","5","T","0","8",":","0","0",":","0","0","+","0","2",":","0","0">>
Date_middle == <<"1","0","/","0","2","/","2","0","2","4">>
Date_bad == <<"y","e","s","t","e","r","d","a","y">>
Att_two == <<"[","a",".","p","d","f",","," ","b",".","p","n","g","]">>
Note_payment == <<"p","a","y","m","e","n","t">>
Note_nothing == <<"n","o","t","h","i","n","g">>
K_note == <<"n","o","t","e">>
W_boss == <<"b","o","s","s","@","c","o",".","i","o">>
W_domain == <<"@","X",".","I","O">>
W_prefix == <<"B","O","S","S","@">>
Kw_sale == <<"s","a","l","e">>
Kw_sal == <<"S","A","L">>
Kw_urgent == <<"U","r","g","e","n","t">>
Ds_xio == <<"x",".","i","o">>
Ds_eve == <<"e","v","e","@">>
Ks_coio == <<"C","O",".","I","O">>

Absent == <<"absent">>

\* one "key: value" line of the metadata block, nothing when the field is absent
Field(key, value) == IF value = Absent THEN <<>> ELSE key \o <<":", " ">> \o value \o NL

\* a stored record: delimiter line, metadata block, delimiter line, blank line, body
StoredRecord(from, subject, date, attachments, note, body_text) ==
  DELIM \o NL
    \o Field(K_from, from) \o Field(K_subject, subject) \o Field(K_date, date)
    \o Field(K_attachments, attachments) \o Field(K_note, note)
    \o DELIM \o NL \o NL \o body_text

C_empty == <<>>
C_short == <<"-","-","-","\n","-","-","-","\n">>
C_short_wide == <<"-","-","-","\n","U+00E9","\n","-","-","-">>   \* nine characters, ten bytes
C_no_opening == <<"f","r","o","m",":"," ","a","@","b",".","c","\n","-","-","-","\n","\n","B","o","d","y"," ","t","e","x","t">>
C_indented == <<" "," ","-","-","-","\n","f","r","o","m",":"," ","a","@","b",".","c","\n","-","-","-","\n","\n","B","o","d","y"," ","t","e","x","t">>
C_no_closing == <<"-","-","-","\n","f","r","o","m",":"," ","a","@","b",".","c","\n","\n","B","o","d","y"," ","t","e","x","t">>
C_bad_yaml == <<"-","-","-","\n","s","u","b","j","e","c","t",":"," ","H","e","l","l","o","\n","g","a","r","b","a","g","e","\n","-","-","-","\n","\n","B","o","d","y">>
C_no_fields == <<"-","-","-","\n","\n","-","-","-","\n","B","o","d","y"," ","t","e","x","t"," ","h","e","r","e">>

SkipContents ==
  {C_empty, C_short, C_short_wide, C_no_opening, C_indented, C_no_closing, C_bad_yaml,
   C_no_fields}

Senders == {Absent, Snd_spam, Snd_boss, Snd_eve}
Subjects == {Sub_hello, Sub_urgent_sale, Sub_big_sale, Sub_digest}
Bodies == {Body_small, Body_contract, Body_payment, Body_long}
Dates == {Absent, Date_old, Date_recent, Date_middle}
Attachments == {Absent, Att_two}

RecordContents ==
  { StoredRecord(f, s, d, a, Absent, b) :
      f \in Senders, s \in Subjects, d \in Dates, a \in Attachments, b \in Bodies }

Contents == RecordContents \cup SkipContents

default_type_weights ==
  [ k \in {"newsletter", "mailing_list", "group", "direct", "unknown"} |->
      CASE k = "newsletter" -> -2
        [] k = "mailing_list" -> -1
        [] k = "direct" -> 1
        [] OTHER -> 0 ]

\* a SortConfig with the thresholds scaled to the lengths of the bodies above
MkConfig(whitelist, delete_keywords, keep_keywords, delete_senders, keep_senders,
         keep_with_attachments, type_weights) ==
  [ delete_keywords |-> delete_keywords,
    delete_senders |-> delete_senders,
    delete_subjects |-> <<>>,
    summarize_max_length |-> 17,
    summarize_keywords |-> <<>>,
    keep_keywords |-> keep_keywords,
    keep_senders |-> keep_senders,
    keep_subjects |-> <<>>,
    whitelist |-> whitelist,
    recent_threshold_days |-> 7,
    old_threshold_days |-> 30,
    small_email_threshold |-> 4,
    large_email_threshold |-> 20,
    keep_with_attachments |-> keep_with_attachments,
    type_weights |-> type_weights ]

Whitelists == { <<>>, <<W_boss, W_domain>>, <<W_prefix, <<>>>> }
KeywordLists == { <<<<>>, <<>>>>, <<<<Kw_sale, Kw_sal>>, <<Kw_urgent>>>> }
SenderLists == { <<<<>>, <<>>>>, <<<<Ds_xio, Ds_eve>>, <<Ks_coio>>>> }
Policies ==
  { <<TRUE, default_type_weights>>,
    <<FALSE, [ k \in {"newsletter"} |-> -2 ]>> }

Configs ==
  { MkConfig(w, kw[1], kw[2], sl[1], sl[2], po[1], po[2]) :
      w \in Whitelists, kw \in KeywordLists, sl \in SenderLists, po \in Policies }

\* 2024-03-01T12:00:00Z
Noon_Mar01 == DaysFromCivil(2024, 3, 1) * SECS_PER_DAY + 12 * 3600
\* 2024-01-15T01:00:00Z and 2024-01-15T20:00:00Z
Early_Jan15 == DaysFromCivil(2024, 1, 15) * SECS_PER_DAY + 3600
Late_Jan15 == DaysFromCivil(2024, 1, 15) * SECS_PER_DAY + 20 * 3600

Instants == {Early_Jan15, Late_Jan15, Noon_Mar01}

P_one == <<"m","a","i","l","/","o","n","e",".","m","d">>
P_two == <<"m","a","i","l","/","t","w","o",".","m","d">>
P_att == <<"m","a","i","l","/","a","t","t","a","c","h","m","e","n","t","s","/","t","h","r","e","e",".","m","d">>
P_txt == <<"m","a","i","l","/","n","o","t","e","s",".","t","x","t">>
P_three == <<"m","a","i","l","/","s","u","b","/","t","h","r","e","e",".","m","d">>
\* a record whose file name holds the word attachments, in no attachments folder
P_named == <<"m","a","i","l","/","n","o","_","a","t","t","a","c","h","m","e","n","t","s",".","m","d">>

NotCalled == [kind |-> "NotCalled"]

\* with_retry has not been called
NoRetry == [pc |-> "none"]

\* merge_account, SortConfig::load and save, scan_and_fix_directory have not been
\* called
NoMerge == [pc |-> "none"]
NoStore == [pc |-> "none"]
NoFix == [pc |-> "none"]

-----------------------------------------------------------------------------
(* SpecAnalyze: one analyze_email_file call on every stored content and      *)
(* configuration.                                                           *)

InitAnalyze ==
  /\ config \in Configs
  /\ clock = Noon_Mar01
  /\ files \in [ {P_one} -> Contents ]
  /\ pc = "ready"
  /\ entries = <<>>
  /\ stats = NewStats
  /\ categories = EmptyMap
  /\ sorts = 0
  /\ result = NotCalled
  /\ runs = <<>>
  /\ report = None
  /\ retry = NoRetry
  /\ summary = None
  /\ merge = NoMerge
  /\ store = NoStore
  /\ fix = NoFix

\* the caller invokes sorter.analyze_email_file(&file_path)
Analyze ==
  /\ pc = "ready"
  /\ result' = analyze_email_file(P_one)
  /\ pc' = "returned"
  /\ UNCHANGED <<config, clock, files, entries, stats, categories, sorts, runs, report,
                 retry, summary, merge, store, fix>>

NextAnalyze == Analyze

SpecAnalyze == InitAnalyze /\ [][NextAnalyze]_vars

-----------------------------------------------------------------------------
(* SpecScore: one analyze_email_file call on records of every age, under     *)
(* every ordering of the two age thresholds and keyword lists with repeated *)
(* and empty entries.                                                       *)

\* recent_threshold_days and old_threshold_days (both i64), in every order
AgeThresholds == { <<7, 30>>, <<30, 7>>, <<20, 20>>, <<7, -50>> }

ScoreKeywordLists ==
  { <<<<>>, <<>>>>,
    <<<<Kw_sale, Kw_sal>>, <<Kw_urgent>>>>,
    <<<<Kw_sale, Kw_sale, <<>>>>, <<Kw_urgent, Kw_sale, Kw_urgent>>>> }

ScoreConfigs ==
  { [ MkConfig(<<>>, kw[1], kw[2], <<Ds_xio>>, <<>>, po[1], po[2])
        EXCEPT !.recent_threshold_days = th[1], !.old_threshold_days = th[2] ] :
      kw \in ScoreKeywordLists, po \in Policies, th \in AgeThresholds }

ScoreContents ==
  { StoredRecord(Snd_eve, s, d, Absent, Absent, Body_payment) :
      s \in Subjects \cup {Absent}, d \in Dates \cup {Date_bad} }

InitScore ==
  /\ config \in ScoreConfigs
  /\ clock \in {Early_Jan15, Noon_Mar01}
  /\ files \in [ {P_one} -> ScoreContents ]
  /\ pc = "ready"
  /\ entries = <<>>
  /\ stats = NewStats
  /\ categories = EmptyMap
  /\ sorts = 0
  /\ result = NotCalled
  /\ runs = <<>>
  /\ report = None
  /\ retry = NoRetry
  /\ summary = None
  /\ merge = NoMerge
  /\ store = NoStore
  /\ fix = NoFix

SpecScore == InitScore /\ [][NextAnalyze]_vars

-----------------------------------------------------------------------------
(* SpecFrontmatter: one extract_frontmatter call on every text of up to      *)
(* MaxLines lines.                                                          *)

MaxLines == 4

\* the lines the texts are made of: the delimiter, the delimiter indented, with a
\* carriage return and with a suffix, a metadata entry, an empty line
LineKinds ==
  { DELIM, <<" ">> \o DELIM, DELIM \o <<"\r">>, DELIM \o <<"x">>,
    <<"k", ":", " ", "v">>, <<>> }

\* the text of the lines ls, the last line with or without its terminator
TextOf(ls, terminated) == join(ls, NL) \o (IF terminated /\ ls # <<>> THEN NL ELSE <<>>)

Texts ==
  { TextOf(ls, t) : ls \in UNION { [1..n -> LineKinds] : n \in 0..MaxLines },
                    t \in BOOLEAN }

InitFrontmatter ==
  /\ config = MkConfig(<<>>, <<>>, <<>>, <<>>, <<>>, TRUE, default_type_weights)
  /\ clock = Noon_Mar01
  /\ files \in [ {P_one} -> Texts ]
  /\ pc = "ready"
  /\ entries = <<>>
  /\ stats = NewStats
  /\ categories = EmptyMap
  /\ sorts = 0
  /\ result = NotCalled
  /\ runs = <<>>
  /\ report = None
  /\ retry = NoRetry
  /\ summary = None
  /\ merge = NoMerge
  /\ store = NoStore
  /\ fix = NoFix

\* the caller invokes extract_frontmatter(&content)
ExtractFrontmatter ==
  /\ pc = "ready"
  /\ result' = [kind |-> "Frontmatter", value |-> extract_frontmatter(files[P_one])]
  /\ pc' = "returned"
  /\ UNCHANGED <<config, clock, files, entries, stats, categories, sorts, runs, report,
                 retry, summary, merge, store, fix>>

NextFrontmatter == ExtractFrontmatter

SpecFrontmatter == InitFrontmatter /\ [][NextFrontmatter]_vars


-----------------------------------------------------------------------------
(* SpecTwoRuns: analyze_email_file is called repeatedly on one path while    *)
(* the clock advances and the file is rewritten between the calls.          *)

MaxRuns == 2

R_payment == StoredRecord(Snd_eve, Sub_hello, Date_old, Absent, Absent, Body_payment)
R_nothing == StoredRecord(Snd_eve, Sub_hello, Date_old, Absent, Absent, Body_nothing)
R_note_payment == StoredRecord(Snd_eve, Sub_hello, Date_old, Absent, Note_payment, Body_nothing)
R_note_nothing == StoredRecord(Snd_eve, Sub_hello, Date_old, Absent, Note_nothing, Body_nothing)

TwoRunContents == {R_payment, R_nothing, R_note_payment, R_note_nothing}

TwoRunConfig == MkConfig(<<>>, <<Kw_sale>>, <<Kw_urgent>>, <<Ds_xio>>, <<>>, TRUE, default_type_weights)

InitTwoRuns ==
  /\ config = TwoRunConfig
  /\ clock \in Instants
  /\ files \in [ {P_one} -> TwoRunContents ]
  /\ pc = "ready"
  /\ entries = <<>>
  /\ stats = NewStats
  /\ categories = EmptyMap
  /\ sorts = 0
  /\ result = NotCalled
  /\ runs = <<>>
  /\ report = None
  /\ retry = NoRetry
  /\ summary = None
  /\ merge = NoMerge
  /\ store = NoStore
  /\ fix = NoFix

\* the caller invokes sorter.analyze_email_file(&file_path) once more
CallAnalyze ==
  /\ Len(runs) < MaxRuns
  /\ result' = analyze_email_file(P_one)
  /\ runs' = Append(runs, [content |-> files[P_one], clock |-> clock, result |-> result'])
  /\ pc' = "returned"
  /\ UNCHANGED <<config, clock, files, entries, stats, categories, sorts, report, retry,
                 summary, merge, store, fix>>

\* time passes
Tick ==
  /\ \E t \in Instants : t > clock /\ clock' = t
  /\ UNCHANGED <<config, files, pc, entries, stats, categories, sorts, result, runs,
                 report, retry, summary, merge, store, fix>>

\* another program rewrites the stored record
WriteFile ==
  /\ \E c \in TwoRunContents : c # files[P_one] /\ files' = [files EXCEPT ![P_one] = c]
  /\ UNCHANGED <<config, clock, pc, entries, stats, categories, sorts, result, runs,
                 report, retry, summary, merge, store, fix>>

NextTwoRuns == CallAnalyze \/ Tick \/ WriteFile

SpecTwoRuns == InitTwoRuns /\ [][NextTwoRuns]_vars

-----------------------------------------------------------------------------
(* Spec: a sorter scans its base directory with sort_emails.                *)

MaxSorts == 1

B_spam == StoredRecord(Snd_spam, Sub_hello, Date_old, Absent, Absent, Body_nothing)
B_boss == StoredRecord(Snd_boss, Sub_urgent_sale, Date_recent, Att_two, Absent, Body_contract)
B_digest == StoredRecord(Absent, Sub_digest, Absent, Absent, Absent, Body_long)
B_bulletin == StoredRecord(Snd_eve, Sub_bulletin, Date_middle, Absent, Absent, Body_small)
B_no_subject == StoredRecord(Snd_eve, Absent, Date_old, Absent, Absent, Body_payment)

B_plain == StoredRecord(Snd_eve, Sub_hello, Date_middle, Absent, Absent, Body_nothing)

BatchContents == {B_spam, B_boss, B_digest, B_bulletin, B_no_subject, C_no_closing, Unreadable}

\* the contents of the third scanned file
ThirdContents == {B_plain, C_no_closing}

BatchConfigs ==
  { MkConfig(<<>>, <<>>, <<Kw_urgent>>, <<Ds_xio>>, <<>>, TRUE, default_type_weights),
    MkConfig(<<W_boss, W_domain>>, <<Kw_sale, Kw_sal>>, <<>>, <<Ds_xio, Ds_eve>>, <<Ks_coio>>,
             FALSE, [ k \in {"newsletter"} |-> -2 ]) }

\* the paths WalkDir yields under base_directory "mail"
WalkedPaths == {P_one, P_two, P_three, P_att, P_txt, P_named}

\* the sequences that list every element of the set S once
Orderings(S) ==
  { q \in [ 1..Cardinality(S) -> S ] : \A i, j \in 1..Cardinality(S) : q[i] = q[j] => i = j }

\* the largest map of which every iteration order is examined
MaxPermKeys == 3

\* one sequence listing every element of the set S once
RECURSIVE SomeOrder(_)
SomeOrder(S) ==
  IF S = {} THEN <<>>
  ELSE LET x == CHOOSE y \in S : TRUE IN <<x>> \o SomeOrder(S \ {x})

Rotation(q, k) == [ i \in 1..Len(q) |-> q[((i + k - 1) % Len(q)) + 1] ]
Reverse(q) == [ i \in 1..Len(q) |-> q[Len(q) + 1 - i] ]

\* the number of rotations examined of an iteration order of a larger map
MaxRotations == 3

\* the orders in which HashMap::iter may yield the keys of a map: every order of a
\* small map, rotations of one order and of its reverse for a larger one
IterOrders(map) ==
  IF Cardinality(DOMAIN map) <= MaxPermKeys THEN Orderings(DOMAIN map)
  ELSE LET base == SomeOrder(DOMAIN map)
           turns == 0..((IF Len(base) < MaxRotations THEN Len(base) ELSE MaxRotations) - 1)
       IN  { Rotation(base, k) : k \in turns } \cup { Rotation(Reverse(base), k) : k \in turns }

Init ==
  /\ config \in BatchConfigs
  /\ clock = Noon_Mar01
  /\ files \in { [ p \in WalkedPaths |->
                       CASE p = P_one -> c1
                         [] p = P_two -> c2
                         [] p = P_three -> c3
                         [] p = P_att -> B_digest
                         [] p = P_txt -> B_bulletin
                         [] p = P_named -> B_boss ] :
                   c1 \in BatchContents, c2 \in BatchContents, c3 \in ThirdContents }
  /\ pc = "idle"
  /\ entries = <<>>
  /\ stats = NewStats
  /\ categories = EmptyMap
  /\ sorts = 0
  /\ result = NotCalled
  /\ runs = <<>>
  /\ report = None
  /\ retry = NoRetry
  /\ summary = None
  /\ merge = NoMerge
  /\ store = NoStore
  /\ fix = NoFix

\* sort_emails, up to the for loop: the entries are collected, in the order WalkDir
\* happens to yield them
SortStart ==
  /\ pc \in {"idle", "failed"}
  /\ sorts < MaxSorts
  /\ entries' \in Orderings({ p \in WalkedPaths : IsScanned(p) })
  /\ pc' = "sorting"
  /\ sorts' = sorts + 1
  /\ UNCHANGED <<config, clock, files, stats, categories, result, runs, report, retry,
                 summary, merge, store, fix>>

\* one turn of the for loop: the file yields a record, which is folded
SortFold ==
  /\ pc = "sorting" /\ entries # <<>>
  /\ result' = analyze_email_file(Head(entries))
  /\ result'.kind = "Some"
  /\ stats' = FoldStats(stats, result'.data)
  /\ categories' = FoldCategories(categories, result'.data)
  /\ entries' = Tail(entries)
  /\ UNCHANGED <<config, clock, files, pc, sorts, runs, report, retry, summary, merge,
                 store, fix>>

\* one turn of the for loop: analyze_email_file returns Ok(None)
SortSkip ==
  /\ pc = "sorting" /\ entries # <<>>
  /\ result' = analyze_email_file(Head(entries))
  /\ result'.kind = "None"
  /\ entries' = Tail(entries)
  /\ UNCHANGED <<config, clock, files, pc, stats, categories, sorts, runs, report, retry,
                 summary, merge, store, fix>>

\* one turn of the for loop: analyze_email_file returns Err, which the ? operator
\* returns from sort_emails
SortFail ==
  /\ pc = "sorting" /\ entries # <<>>
  /\ result' = analyze_email_file(Head(entries))
  /\ result'.kind = "Err"
  /\ entries' = <<>>
  /\ pc' = "failed"
  /\ UNCHANGED <<config, clock, files, stats, categories, sorts, runs, report, retry,
                 summary, merge, store, fix>>

\* the for loop is over: sort_emails returns Ok(())
SortReturn ==
  /\ pc = "sorting" /\ entries = <<>>
  /\ pc' = "idle"
  /\ UNCHANGED <<config, clock, files, entries, stats, categories, sorts, result, runs,
                 report, retry, summary, merge, store, fix>>

\* the caller invokes sorter.generate_report()
GenerateReport ==
  /\ pc \in {"idle", "failed"}
  /\ \E iteration \in IterOrders(stats.by_sender) :
       report' = Some(generate_report(stats, categories, iteration))
  /\ UNCHANGED <<config, clock, files, pc, entries, stats, categories, sorts, result,
                 runs, retry, summary, merge, store, fix>>

Next == SortStart \/ SortFold \/ SortSkip \/ SortFail \/ SortReturn \/ GenerateReport

Spec == Init /\ [][Next]_vars

-----------------------------------------------------------------------------
(* SpecAccumulate: sort_emails is called again on the same sorter, and       *)
(* generate_report and print_summary are called between the calls.          *)

MaxBatches == 2

InitAccumulate ==
  /\ config = MkConfig(<<>>, <<>>, <<Kw_urgent>>, <<Ds_xio>>, <<>>, TRUE, default_type_weights)
  /\ clock = Noon_Mar01
  /\ files \in { [ p \in WalkedPaths |->
                       CASE p = P_one -> c1
                         [] p = P_two -> c2
                         [] p = P_three -> B_plain
                         [] p = P_att -> B_digest
                         [] p = P_txt -> B_bulletin
                         [] p = P_named -> B_boss ] :
                   c1 \in {B_spam, B_boss, Unreadable}, c2 \in {B_digest, C_no_closing} }
  /\ pc = "idle"
  /\ entries = <<>>
  /\ stats = NewStats
  /\ categories = EmptyMap
  /\ sorts = 0
  /\ result = NotCalled
  /\ runs = <<>>
  /\ report = None
  /\ retry = NoRetry
  /\ summary = None
  /\ merge = NoMerge
  /\ store = NoStore
  /\ fix = NoFix

\* variant of SortAgain: the call starts from fresh statistics
SortAgain_fresh ==
  /\ pc \in {"idle", "failed"}
  /\ sorts >= 1 /\ sorts < MaxBatches
  /\ entries' \in Orderings({ p \in WalkedPaths : IsScanned(p) })
  /\ pc' = "sorting"
  /\ sorts' = sorts + 1
  /\ stats' = NewStats
  /\ categories' = EmptyMap
  /\ UNCHANGED <<config, clock, files, result, runs, report, retry, summary, merge, store,
                 fix>>

\* a further sort_emails call on the sorter, up to the for loop: self.stats and
\* self.categories are those the earlier calls left
SortAgain ==
  /\ pc \in {"idle", "failed"}
  /\ sorts >= 1 /\ sorts < MaxBatches
  /\ entries' \in Orderings({ p \in WalkedPaths : IsScanned(p) })
  /\ pc' = "sorting"
  /\ sorts' = sorts + 1
  /\ UNCHANGED <<config, clock, files, stats, categories, result, runs, report, retry,
                 summary, merge, store, fix>>

\* the caller invokes sorter.print_summary()
PrintSummary ==
  /\ pc \in {"idle", "failed"}
  /\ \E type_iteration \in IterOrders(stats.by_type),
        sender_iteration \in IterOrders(stats.by_sender) :
       summary' = Some(print_summary(stats, type_iteration, sender_iteration))
  /\ UNCHANGED <<config, clock, files, pc, entries, stats, categories, sorts, result, runs,
                 report, retry, merge, store, fix>>

NextAccumulate ==
  \/ SortStart \/ SortAgain \/ SortFold \/ SortSkip \/ SortFail \/ SortReturn
  \/ GenerateReport \/ PrintSummary

SpecAccumulate == InitAccumulate /\ [][NextAccumulate]_vars


-----------------------------------------------------------------------------
(* SpecReport: generate_report on a sorter whose sort_emails folded a        *)
(* directory of classified records.                                         *)

\* the largest number of records of one category in the directory
MaxPerCategory == 6

\* the numbers of distinct senders the records are spread over
SenderSpreads == {1, 3, 11, 12}

SenderOf(i) == <<"u">> \o Pad(i, 2) \o <<"@","x",".","i","o">>

\* the EmailData analyze_email_file returned for the i-th file of the directory
ClassifiedRecord(i, category, sender) ==
  [ file_path |-> BaseDirectory \o <<"/">> \o Pad(i, 2) \o <<".">> \o S_md,
    file_name |-> Pad(i, 2) \o <<".">> \o S_md,
    file_size |-> 40 + i,
    body_length |-> 10 + i,
    has_attachments |-> FALSE,
    attachment_count |-> 0,
    date |-> IF i % 2 = 0 THEN parse_date(Date_old) ELSE None,
    age_days |-> IF i % 2 = 0 THEN Some(AgeDays(Noon_Mar01, Unwrap(parse_date(Date_old))))
                 ELSE None,
    sender |-> sender,
    recipients |-> <<>>,
    subject |-> Sub_hello,
    tags |-> <<>>,
    email_type |-> "Direct",
    score |-> CASE category = "Delete" -> -2 [] category = "Keep" -> 2 [] OTHER -> 0,
    category |-> category ]

\* the records of a directory with d, s and k records of the three categories, sent
\* by spread senders in turn
DirectoryRecords(d, s, k, spread) ==
  [ i \in 1..(d + s + k) |->
      ClassifiedRecord(i,
                       IF i <= d THEN "Delete" ELSE IF i <= d + s THEN "Summarize" ELSE "Keep",
                       SenderOf(((i - 1) % spread) + 1)) ]

\* the for loop of sort_emails over records
RECURSIVE FoldAllStats(_, _)
FoldAllStats(st, records) ==
  IF records = <<>> THEN st ELSE FoldAllStats(FoldStats(st, Head(records)), Tail(records))

RECURSIVE FoldAllCategories(_, _)
FoldAllCategories(cats, records) ==
  IF records = <<>> THEN cats
  ELSE FoldAllCategories(FoldCategories(cats, Head(records)), Tail(records))

InitReport ==
  /\ config = TwoRunConfig
  /\ clock = Noon_Mar01
  /\ files = EmptyMap
  /\ pc = "idle"
  /\ entries = <<>>
  /\ \E d \in 0..MaxPerCategory, s \in 0..MaxPerCategory, k \in 0..MaxPerCategory,
        spread \in SenderSpreads :
       /\ stats = FoldAllStats(NewStats, DirectoryRecords(d, s, k, spread))
       /\ categories = FoldAllCategories(EmptyMap, DirectoryRecords(d, s, k, spread))
  /\ sorts = 1
  /\ result = NotCalled
  /\ runs = <<>>
  /\ report = None
  /\ retry = NoRetry
  /\ summary = None
  /\ merge = NoMerge
  /\ store = NoStore
  /\ fix = NoFix

NextReport == GenerateReport

SpecReport == InitReport /\ [][NextReport]_vars

-----------------------------------------------------------------------------
(* SpecRetry: network::with_retry (src/src/network.rs) on an operation that  *)
(* succeeds or fails at each invocation.                                     *)

\* the largest max_retries of a NetworkConfig
MaxRetriesCfg == 3

\* NetworkConfig: max_retries, and the two delays in seconds
NetworkConfigs ==
  { [ max_retries |-> n, initial_retry_delay |-> i, max_retry_delay |-> m ] :
      n \in 0..MaxRetriesCfg, i \in {1, 3}, m \in {2, 4} }

\* what an invocation of the operation f may return
Outcomes ==
  { [ok |-> TRUE, value |-> "42"], [ok |-> FALSE, value |-> "temporary failure"],
    [ok |-> FALSE, value |-> "always fails"] }

\* variant of GivesUp: one more attempt is made
GivesUp_one_late(attempts, max_retries) == attempts > max_retries

\* attempts >= config.max_retries
GivesUp(attempts, max_retries) == attempts >= max_retries

\* std::cmp::min(delay * 2, config.max_retry_delay)
NextDelay(delay, max_retry_delay) ==
  IF delay * 2 < max_retry_delay THEN delay * 2 ELSE max_retry_delay

\* with_retry is entered: attempts = 0, delay = config.initial_retry_delay
InitRetry ==
  /\ config = TwoRunConfig
  /\ clock = Noon_Mar01
  /\ files = EmptyMap
  /\ pc = "idle"
  /\ entries = <<>>
  /\ stats = NewStats
  /\ categories = EmptyMap
  /\ sorts = 0
  /\ result = NotCalled
  /\ runs = <<>>
  /\ report = None
  /\ \E c \in NetworkConfigs :
       retry = [ pc |-> "loop", config |-> c, attempts |-> 0,
                 delay |-> c.initial_retry_delay, calls |-> <<>>, slept |-> <<>>,
                 returned |-> None ]
  /\ summary = None
  /\ merge = NoMerge
  /\ store = NoStore
  /\ fix = NoFix

\* a turn of the loop: f() returns Ok(result), which with_retry returns
AttemptOk ==
  /\ retry.pc = "loop"
  /\ \E o \in Outcomes :
       /\ o.ok
       /\ retry' = [retry EXCEPT !.attempts = @ + 1, !.calls = Append(@, o),
                                 !.returned = Some(o), !.pc = "returned"]
  /\ UNCHANGED <<config, clock, files, pc, entries, stats, categories, sorts, result,
                 runs, report, summary, merge, store, fix>>

\* a turn of the loop: f() returns Err(e) and the attempts are used up
AttemptGiveUp ==
  /\ retry.pc = "loop"
  /\ GivesUp(retry.attempts + 1, retry.config.max_retries)
  /\ \E o \in Outcomes :
       /\ ~o.ok
       /\ retry' = [retry EXCEPT !.attempts = @ + 1, !.calls = Append(@, o),
                                 !.returned = Some(o), !.pc = "returned"]
  /\ UNCHANGED <<config, clock, files, pc, entries, stats, categories, sorts, result,
                 runs, report, summary, merge, store, fix>>

\* a turn of the loop: f() returns Err(e) and another attempt is due
AttemptFailed ==
  /\ retry.pc = "loop"
  /\ ~GivesUp(retry.attempts + 1, retry.config.max_retries)
  /\ \E o \in Outcomes :
       /\ ~o.ok
       /\ retry' = [retry EXCEPT !.attempts = @ + 1, !.calls = Append(@, o),
                                 !.pc = "sleep"]
  /\ UNCHANGED <<config, clock, files, pc, entries, stats, categories, sorts, result,
                 runs, report, summary, merge, store, fix>>

\* thread::sleep(delay) returns and the delay is doubled, up to max_retry_delay
Backoff ==
  /\ retry.pc = "sleep"
  /\ retry' = [retry EXCEPT !.slept = Append(@, retry.delay),
                            !.delay = NextDelay(@, retry.config.max_retry_delay),
                            !.pc = "loop"]
  /\ UNCHANGED <<config, clock, files, pc, entries, stats, categories, sorts, result,
                 runs, report, summary, merge, store, fix>>

NextRetry == AttemptOk \/ AttemptGiveUp \/ AttemptFailed \/ Backoff

\* an invocation of f returns and a sleep ends
SpecRetry == InitRetry /\ [][NextRetry]_vars /\ WF_vars(NextRetry)

-----------------------------------------------------------------------------
(* config::merge_account (src/src/config.rs).  An AccountBehavior is a       *)
(* record of Options; Settings.accounts is a function from account names.   *)

\* Option::and_then, Option::or, Option::unwrap_or
and_then(o, f(_)) == IF IsSome(o) THEN f(Unwrap(o)) ELSE None
or(o, other) == IF IsSome(o) THEN o ELSE other
unwrap_or(o, default) == IF IsSome(o) THEN Unwrap(o) ELSE default

\* HashMap::get
get(map, key) == IF key \in DOMAIN map THEN Some(map[key]) ELSE None

\* PathBuf::from(base).join(folder), separator "/": an absolute folder replaces the
\* base, otherwise a separator is added unless the base is empty or ends with one
path_join(base, folder) ==
  IF starts_with(folder, <<"/">>) THEN folder
  ELSE IF base = <<>> \/ ends_with(base, <<"/">>) THEN base \o folder
  ELSE base \o <<"/">> \o folder

\* str::replace('\\', "/")
replace_backslashes(s) == [ i \in 1..Len(s) |-> IF s[i] = "\\" THEN "/" ELSE s[i] ]

\* variant of merge_account: the settings defaults win over the per-account values
merge_account_defaults_first(raw, settings) ==
  LET per == get(settings.accounts, raw.name)
      def == settings.defaults
      folder == unwrap_or(and_then(per, LAMBDA a : a.folder_name), raw.name)
      export_directory ==
        IF IsSome(settings.export_base_dir)
        THEN replace_backslashes(path_join(Unwrap(settings.export_base_dir), folder))
        ELSE <<>>
  IN  [ name |-> raw.name,
        server |-> raw.server,
        port |-> raw.port,
        username |-> raw.username,
        password |-> None,
        ignored_folders |-> raw.ignored_folders,
        export_directory |-> export_directory,
        quote_depth |->
          unwrap_or(or(def.quote_depth, and_then(per, LAMBDA a : a.quote_depth)), 1),
        skip_existing |->
          unwrap_or(or(def.skip_existing, and_then(per, LAMBDA a : a.skip_existing)), TRUE),
        collect_contacts |->
          unwrap_or(or(def.collect_contacts, and_then(per, LAMBDA a : a.collect_contacts)),
                    FALSE),
        skip_signature_images |->
          unwrap_or(or(def.skip_signature_images,
                       and_then(per, LAMBDA a : a.skip_signature_images)), FALSE),
        delete_after_export |->
          unwrap_or(or(def.delete_after_export,
                       and_then(per, LAMBDA a : a.delete_after_export)), FALSE) ]

\* merge_account
merge_account(raw, settings) ==
  LET per == get(settings.accounts, raw.name)
      def == settings.defaults
      folder == unwrap_or(and_then(per, LAMBDA a : a.folder_name), raw.name)
      export_directory ==
        IF IsSome(settings.export_base_dir)
        THEN replace_backslashes(path_join(Unwrap(settings.export_base_dir), folder))
        ELSE <<>>
  IN  [ name |-> raw.name,
        server |-> raw.server,
        port |-> raw.port,
        username |-> raw.username,
        password |-> None,
        ignored_folders |-> raw.ignored_folders,
        export_directory |-> export_directory,
        quote_depth |->
          unwrap_or(or(and_then(per, LAMBDA a : a.quote_depth), def.quote_depth), 1),
        skip_existing |->
          unwrap_or(or(and_then(per, LAMBDA a : a.skip_existing), def.skip_existing), TRUE),
        collect_contacts |->
          unwrap_or(or(and_then(per, LAMBDA a : a.collect_contacts), def.collect_contacts),
                    FALSE),
        skip_signature_images |->
          unwrap_or(or(and_then(per, LAMBDA a : a.skip_signature_images),
                       def.skip_signature_images), FALSE),
        delete_after_export |->
          unwrap_or(or(and_then(per, LAMBDA a : a.delete_after_export),
                       def.delete_after_export), FALSE) ]

-----------------------------------------------------------------------------
(* SpecMerge: one merge_account call on every combination of settings.       *)

N_TestAccount == <<"T","e","s","t","A","c","c","o","u","n","t">>
N_testaccount == <<"t","e","s","t","a","c","c","o","u","n","t">>
F_custom == <<"c","u","s","t","o","m","-","f","o","l","d","e","r">>
F_shared == <<"s","h","a","r","e","d">>
F_absolute == <<"/","m","n","t","/","m","a","i","l">>
F_backslash == <<"w","o","r","k","\\","i","n","b","o","x">>
D_tmp_emails == <<"/","t","m","p","/","e","m","a","i","l","s">>
D_out == <<"o","u","t","/">>
D_windows == <<"C",":","\\","m","a","i","l">>

\* the four flags skip_existing, collect_contacts, skip_signature_images,
\* delete_after_export of a layer
FlagLayers ==
  { <<None, None, None, None>>,
    <<Some(TRUE), Some(TRUE), Some(TRUE), Some(TRUE)>>,
    <<Some(FALSE), Some(FALSE), Some(FALSE), Some(FALSE)>>,
    <<Some(FALSE), None, Some(TRUE), Some(TRUE)>>,
    <<None, None, Some(FALSE), None>> }

MkBehavior(folder_name, quote_depth, flags) ==
  [ folder_name |-> folder_name,
    quote_depth |-> quote_depth,
    skip_existing |-> flags[1],
    collect_contacts |-> flags[2],
    skip_signature_images |-> flags[3],
    delete_after_export |-> flags[4] ]

DefaultBehaviors ==
  { MkBehavior(f, q, fl) :
      f \in {None, Some(F_shared)}, q \in {None, Some(0), Some(3)}, fl \in FlagLayers }

AccountBehaviors ==
  { MkBehavior(f, q, fl) :
      f \in {None, Some(F_custom), Some(F_absolute), Some(F_backslash)},
      q \in {None, Some(0), Some(5)}, fl \in FlagLayers }

\* Settings.accounts: no entry, an entry for the account, an entry under a name
\* that differs in case
AccountMaps ==
  {EmptyMap} \cup { (k :> b) : k \in {N_TestAccount, N_testaccount}, b \in AccountBehaviors }

SettingsSet ==
  { [ export_base_dir |-> base, defaults |-> def, accounts |-> accounts ] :
      base \in {None, Some(D_tmp_emails), Some(D_out), Some(D_windows)},
      def \in DefaultBehaviors, accounts \in AccountMaps }

TestRawAccount ==
  [ name |-> N_TestAccount, server |-> <<"i","m","a","p",".","x",".","i","o">>,
    port |-> 993, username |-> <<"u","@","x",".","i","o">>, ignored_folders |-> <<>> ]

InitMerge ==
  /\ config = TwoRunConfig
  /\ clock = Noon_Mar01
  /\ files = EmptyMap
  /\ pc = "idle"
  /\ entries = <<>>
  /\ stats = NewStats
  /\ categories = EmptyMap
  /\ sorts = 0
  /\ result = NotCalled
  /\ runs = <<>>
  /\ report = None
  /\ retry = NoRetry
  /\ summary = None
  /\ \E st \in SettingsSet :
       merge = [ pc |-> "ready", raw |-> TestRawAccount, settings |-> st, account |-> None ]
  /\ store = NoStore
  /\ fix = NoFix

\* load_with_settings maps merge_account over the raw accounts
MergeAccount ==
  /\ merge.pc = "ready"
  /\ merge' = [merge EXCEPT !.pc = "returned",
                            !.account = Some(merge_account(merge.raw, merge.settings))]
  /\ UNCHANGED <<config, clock, files, pc, entries, stats, categories, sorts, result, runs,
                 report, retry, summary, store, fix>>

NextMerge == MergeAccount

SpecMerge == InitMerge /\ [][NextMerge]_vars

-----------------------------------------------------------------------------
(* SortConfig::load and SortConfig::save (src/src/config.rs) and the         *)
(* serde_json calls they make.  A JSON text is the tree of its tokens:      *)
(* <<"num", n>>, <<"bool", b>>, <<"str", t>> with t the text between the    *)
(* quotes, <<"arr", items>>, <<"obj", members>> with members a sequence of  *)
(* <<name, value>>, and <<"null">>.                                         *)

\* fn default_delete_keywords
default_delete_keywords ==
  <<<<"n","e","w","s","l","e","t","t","e","r">>,
    <<"b","u","l","l","e","t","i","n">>,
    <<"d","i","g","e","s","t">>,
    <<"p","r","o","m","o","t","i","o","n">>,
    <<"o","f","f","e","r">>,
    <<"c","o","u","p","o","n">>,
    <<"s","a","l","e">>,
    <<"u","n","s","u","b","s","c","r","i","b","e">>,
    <<"m","a","r","k","e","t","i","n","g">>,
    <<"a","d","v","e","r","t","i","s","e","m","e","n","t">>>>

\* fn default_keep_keywords
default_keep_keywords ==
  <<<<"c","o","n","t","r","a","c","t">>,
    <<"i","n","v","o","i","c","e">>,
    <<"l","e","g","a","l">>,
    <<"u","r","g","e","n","t">>,
    <<"i","m","p","o","r","t","a","n","t">>,
    <<"c","o","n","f","i","d","e","n","t","i","a","l">>>>

\* impl Default for SortConfig, and the serde defaults of the fields
DefaultSortConfig ==
  [ delete_keywords |-> default_delete_keywords,
    delete_senders |-> <<>>,
    delete_subjects |-> <<>>,
    summarize_max_length |-> 5000,
    summarize_keywords |-> <<>>,
    keep_keywords |-> default_keep_keywords,
    keep_senders |-> <<>>,
    keep_subjects |-> <<>>,
    whitelist |-> <<>>,
    recent_threshold_days |-> 30,
    old_threshold_days |-> 365,
    small_email_threshold |-> 500,
    large_email_threshold |-> 10000,
    keep_with_attachments |-> TRUE,
    type_weights |-> default_type_weights ]

\* the fields of SortConfig in declaration order
FieldOrder ==
  <<"delete_keywords", "delete_senders", "delete_subjects", "summarize_max_length",
    "summarize_keywords", "keep_keywords", "keep_senders", "keep_subjects", "whitelist",
    "recent_threshold_days", "old_threshold_days", "small_email_threshold",
    "large_email_threshold", "keep_with_attachments", "type_weights">>

Fields == { FieldOrder[i] : i \in 1..Len(FieldOrder) }

\* the fields of type Vec<String>, usize and i64
VecFields ==
  {"delete_keywords", "delete_senders", "delete_subjects", "summarize_keywords",
   "keep_keywords", "keep_senders", "keep_subjects", "whitelist"}
UsizeFields == {"summarize_max_length", "small_email_threshold", "large_email_threshold"}
I64Fields == {"recent_threshold_days", "old_threshold_days"}

RECURSIVE json_escape(_)
\* the text serde_json writes between the quotes for the string s
json_escape(s) ==
  IF s = <<>> THEN <<>>
  ELSE (CASE s[1] = "\"" -> <<"\\", "\"">>
          [] s[1] = "\\" -> <<"\\", "\\">>
          [] s[1] = "\n" -> <<"\\", "n">>
          [] s[1] = "\t" -> <<"\\", "t">>
          [] OTHER -> <<s[1]>>) \o json_escape(Tail(s))

RECURSIVE json_unescape(_)
\* the string serde_json reads from the text t between two quotes: None for a
\* backslash that starts no escape
json_unescape(t) ==
  IF t = <<>> THEN Some(<<>>)
  ELSE IF t[1] = "\\"
       THEN IF Len(t) >= 2 /\ t[2] \in {"\"", "\\", "n", "t", "/"}
            THEN LET rest == json_unescape(SubSeq(t, 3, Len(t)))
                     c == CASE t[2] = "n" -> "\n" [] t[2] = "t" -> "\t" [] OTHER -> t[2]
                 IN  IF IsSome(rest) THEN Some(<<c>> \o Unwrap(rest)) ELSE None
            ELSE None
       ELSE IF t[1] = "\"" THEN None
       ELSE LET rest == json_unescape(Tail(t))
            IN  IF IsSome(rest) THEN Some(<<t[1]>> \o Unwrap(rest)) ELSE None

json_string(s) == <<"str", json_escape(s)>>

\* the value Serialize writes for a field, type_weights.iter() yielding the keys in
\* the order iteration
serialize_field(field, value, iteration) ==
  CASE field \in VecFields -> <<"arr", [ i \in 1..Len(value) |-> json_string(value[i]) ]>>
    [] field \in UsizeFields \cup I64Fields -> <<"num", value>>
    [] field = "keep_with_attachments" -> <<"bool", value>>
    [] OTHER -> <<"obj", [ i \in 1..Len(iteration) |->
                            <<iteration[i], <<"num", value[iteration[i]]>>>> ]>>

\* serde_json::to_string_pretty(self)
to_string_pretty(cfg, iteration) ==
  <<"obj", [ i \in 1..Len(FieldOrder) |->
               <<FieldOrder[i], serialize_field(FieldOrder[i], cfg[FieldOrder[i]], iteration)>> ]>>

\* a JSON value Deserialize accepts for a field; the numbers of the model are all
\* within i32, so within i64 too, and within usize when not negative
accepts(field, v) ==
  CASE field \in VecFields ->
         /\ v[1] = "arr"
         /\ \A i \in 1..Len(v[2]) : v[2][i][1] = "str" /\ IsSome(json_unescape(v[2][i][2]))
    [] field \in UsizeFields -> v[1] = "num" /\ v[2] >= 0
    [] field \in I64Fields -> v[1] = "num"
    [] field = "keep_with_attachments" -> v[1] = "bool"
    [] OTHER ->
         /\ v[1] = "obj"
         /\ \A i \in 1..Len(v[2]) : v[2][i][2][1] = "num"

\* the field value Deserialize builds from an accepted JSON value; of two members
\* of type_weights with one key the later one stays
deserialize_field(field, v) ==
  CASE field \in VecFields -> [ i \in 1..Len(v[2]) |-> Unwrap(json_unescape(v[2][i][2])) ]
    [] field = "type_weights" ->
         [ k \in { v[2][i][1] : i \in 1..Len(v[2]) } |->
             LET hits == { i \in 1..Len(v[2]) : v[2][i][1] = k }
             IN  v[2][CHOOSE i \in hits : \A j \in hits : j <= i][2][2] ]
    [] OTHER -> v[2]

\* variant of field_default: an absent keep_with_attachments is bool::default()
field_default_plain(field) ==
  IF field = "keep_with_attachments" THEN FALSE ELSE DefaultSortConfig[field]

\* the serde(default ...) attribute of a field
field_default(field) == DefaultSortConfig[field]

\* serde_json::from_str::<SortConfig>.  From an object: members that name no field
\* are ignored, a field named twice or with a value of another type is an error,
\* an absent field takes its serde default.  From an array: the elements are the
\* fields in declaration order, the missing ones take their defaults.
from_str(doc) ==
  CASE doc[1] = "obj" ->
         LET members == doc[2]
             named(f) == { i \in 1..Len(members) : members[i][1] = f }
             only(f) == members[CHOOSE i \in named(f) : TRUE][2]
         IN  IF \E f \in Fields : Cardinality(named(f)) > 1 THEN [kind |-> "Err"]
             ELSE IF \E f \in Fields : named(f) # {} /\ ~accepts(f, only(f))
                  THEN [kind |-> "Err"]
             ELSE [ kind |-> "Ok",
                    config |-> [ f \in Fields |->
                                   IF named(f) # {} THEN deserialize_field(f, only(f))
                                   ELSE field_default(f) ] ]
    [] doc[1] = "arr" ->
         LET items == doc[2]
             at(f) == CHOOSE i \in 1..Len(FieldOrder) : FieldOrder[i] = f
         IN  IF Len(items) > Len(FieldOrder) THEN [kind |-> "Err"]
             ELSE IF \E i \in 1..Len(items) : ~accepts(FieldOrder[i], items[i])
                  THEN [kind |-> "Err"]
             ELSE [ kind |-> "Ok",
                    config |-> [ f \in Fields |->
                                   IF at(f) <= Len(items)
                                   THEN deserialize_field(f, items[at(f)])
                                   ELSE field_default(f) ] ]
    [] OTHER -> [kind |-> "Err"]

\* what is at config_path when it is not a JSON text: nothing, a text that is not
\* JSON, or a directory
Missing == <<"missing">>
NotJson == <<"garbage">>
Directory == <<"directory">>

\* SortConfig::load
load(at_path) ==
  IF at_path = Missing THEN [kind |-> "Ok", config |-> DefaultSortConfig]
  ELSE IF at_path \in {NotJson, Directory} THEN [kind |-> "Err"]
  ELSE from_str(at_path)

\* SortConfig::save: the text written, or an error of fs::write that leaves the
\* path as it was
save(cfg, iteration, at_path, writable) ==
  IF writable /\ at_path # Directory
  THEN [kind |-> "Ok", at_path |-> to_string_pretty(cfg, iteration)]
  ELSE [kind |-> "Err", at_path |-> at_path]

\* the number of load and save calls followed
MaxOps == 3

\* configurations to save: the defaults, one with quotes, backslashes and line
\* breaks in its strings, negative thresholds and one weight, and an empty one
Cfg_escapes ==
  [ DefaultSortConfig EXCEPT
      !.delete_keywords = << <<"a", "\"", "b">>, <<"c", "\\", "d">>, <<"\\", "n">>,
                             <<"e", "\n", "\t", "f">>, <<>> >>,
      !.keep_senders = << <<"\\", "\"">>, <<"/">> >>,
      !.recent_threshold_days = -5,
      !.old_threshold_days = 0,
      !.keep_with_attachments = FALSE,
      !.type_weights = [ k \in {"direct"} |-> -2147483647 ] ]

Cfg_empty ==
  [ DefaultSortConfig EXCEPT
      !.delete_keywords = <<>>,
      !.keep_keywords = <<>>,
      !.summarize_max_length = 0,
      !.small_email_threshold = 2147483647,
      !.keep_with_attachments = FALSE,
      !.type_weights = [ k \in {} |-> 0 ] ]

SavedConfigs == {DefaultSortConfig, Cfg_escapes, Cfg_empty}

\* texts found at config_path that no save wrote
Doc_empty_object == <<"obj", <<>>>>
Doc_empty_array == <<"arr", <<>>>>
Doc_partial ==
  <<"obj", << <<"comment", <<"str", <<"x">>>>>>,
              <<"keep_keywords", <<"arr", << <<"str", <<"t", "a", "x">>>>,
                                             <<"str", <<"a", "\\", "n", "b">>>> >>>>>>,
              <<"old_threshold_days", <<"num", 90>>>> >>>>
Doc_keep_off == <<"obj", << <<"keep_with_attachments", <<"bool", FALSE>>>> >>>>
Doc_weights_twice ==
  <<"obj", << <<"type_weights", <<"obj", << <<"direct", <<"num", 1>>>>,
                                            <<"group", <<"num", 2>>>>,
                                            <<"direct", <<"num", 5>>>> >>>>>> >>>>
Doc_positional ==
  <<"arr", << <<"arr", << <<"str", <<"a", "d">>>> >>>>, <<"arr", <<>>>> >>>>
Doc_text_for_number == <<"obj", << <<"summarize_max_length", <<"str", <<"5">>>>>> >>>>
Doc_negative_length == <<"obj", << <<"small_email_threshold", <<"num", -1>>>> >>>>
Doc_null_list == <<"obj", << <<"whitelist", <<"null">>>> >>>>
Doc_field_twice ==
  <<"obj", << <<"whitelist", <<"arr", <<>>>>>>, <<"whitelist", <<"arr", <<>>>>>> >>>>
Doc_bad_escape == <<"obj", << <<"whitelist", <<"arr", << <<"str", <<"\\", "q">>>> >>>>>> >>>>
Doc_number == <<"num", 7>>

FoundAtPath ==
  {Missing, NotJson, Directory, Doc_empty_object, Doc_empty_array, Doc_partial,
   Doc_keep_off, Doc_weights_twice, Doc_positional, Doc_text_for_number,
   Doc_negative_length, Doc_null_list, Doc_field_twice, Doc_bad_escape, Doc_number}

InitSortConfig ==
  /\ config = TwoRunConfig
  /\ clock = Noon_Mar01
  /\ files = EmptyMap
  /\ pc = "idle"
  /\ entries = <<>>
  /\ stats = NewStats
  /\ categories = EmptyMap
  /\ sorts = 0
  /\ result = NotCalled
  /\ runs = <<>>
  /\ report = None
  /\ retry = NoRetry
  /\ summary = None
  /\ merge = NoMerge
  /\ fix = NoFix
  /\ \E found \in FoundAtPath, writable \in BOOLEAN :
       store = [pc |-> "ready", at_path |-> found, writable |-> writable, log |-> <<>>]

\* a call of SortConfig::load(config_path); the log keeps what was at the path
Load ==
  /\ store.pc = "ready"
  /\ Len(store.log) < MaxOps
  /\ store' = [ store EXCEPT
                  !.log = Append(@, [ op |-> "load", seen |-> store.at_path,
                                      config |-> DefaultSortConfig,
                                      outcome |-> load(store.at_path) ]) ]
  /\ UNCHANGED <<config, clock, files, pc, entries, stats, categories, sorts, result,
                 runs, report, retry, summary, merge, fix>>

\* a call of cfg.save(config_path)
Save ==
  /\ store.pc = "ready"
  /\ Len(store.log) < MaxOps
  /\ \E cfg \in SavedConfigs :
       \E iteration \in IterOrders(cfg.type_weights) :
         LET saved == save(cfg, iteration, store.at_path, store.writable)
         IN  store' = [ store EXCEPT
                          !.at_path = saved.at_path,
                          !.log = Append(@, [ op |-> "save", seen |-> store.at_path,
                                              config |-> cfg,
                                              outcome |-> [kind |-> saved.kind] ]) ]
  /\ UNCHANGED <<config, clock, files, pc, entries, stats, categories, sorts, result,
                 runs, report, retry, summary, merge, fix>>

NextSortConfig == Load \/ Save

SpecSortConfig == InitSortConfig /\ [][NextSortConfig]_vars

-----------------------------------------------------------------------------
(* src/src/fix_yaml.rs.  The regular expressions are sequences of atoms:     *)
(* <<"lit", text>>, <<"many", class, least>> for a greedy repetition of a   *)
(* character class, <<"lazy", class>> for a lazy one; the classes are "w"   *)
(* for \w, "s" for \s, "line" for any character but "\n", "any" for any.    *)

WordSet ==
  UpperSet \cup { LowerChars[i] : i \in 1..Len(LowerChars) }
           \cup { Digits[i] : i \in 1..Len(Digits) } \cup {"_"}

InClass(c, class) ==
  CASE class = "w" -> c \in WordSet
    [] class = "s" -> c \in WhiteSpace
    [] class = "line" -> c # "\n"
    [] OTHER -> TRUE

\* body applied to the value of an expression, which is evaluated once
With(value, body(_)) == CHOOSE r \in { body(v) : v \in {value} } : TRUE

\* the number of characters of text from pos on that are in the class
Run(text, pos, class) ==
  LET stops == { i \in pos..Len(text) : ~InClass(text[i], class) }
  IN  IF stops = {} THEN Len(text) + 1 - pos
      ELSE (CHOOSE i \in stops : \A j \in stops : i <= j) - pos

\* the match of the atoms at pos that the regex crate prefers: None, or Some of the
\* positions that follow each atom.  A greedy repetition takes the most
\* characters with which the rest still matches, a lazy one the fewest.
Match(atoms, text, pos) ==
  LET M[i \in 1..(Len(atoms) + 1), p \in 1..(Len(text) + 1)] ==
        IF i > Len(atoms) THEN Some(<<>>)
        ELSE IF atoms[i][1] = "lit"
             THEN LET q == p + Len(atoms[i][2])
                  IN  IF q - 1 <= Len(text) /\ SubSeq(text, p, q - 1) = atoms[i][2]
                      THEN With(M[i + 1, q],
                                LAMBDA rest : IF IsSome(rest) THEN Some(<<q>> \o Unwrap(rest))
                                              ELSE None)
                      ELSE None
             ELSE LET least == IF atoms[i][1] = "many" THEN atoms[i][3] ELSE 0
                      fit == { k \in least..Run(text, p, atoms[i][2]) : IsSome(M[i + 1, p + k]) }
                  IN  With(fit,
                           LAMBDA ks :
                             IF ks = {} THEN None
                             ELSE With(IF atoms[i][1] = "many"
                                       THEN CHOOSE k \in ks : \A j \in ks : j <= k
                                       ELSE CHOOSE k \in ks : \A j \in ks : k <= j,
                                       LAMBDA k : Some(<<p + k>> \o Unwrap(M[i + 1, p + k]))))
  IN  M[1, pos]

\* Regex::captures : None, or Some(<<start, positions>>) of the leftmost match
captures(atoms, text) ==
  With(text,
       LAMBDA t :
         With({ s \in 1..(Len(t) + 1) : IsSome(Match(atoms, t, s)) },
              LAMBDA starts :
                IF starts = {} THEN None
                ELSE With(CHOOSE x \in starts : \A y \in starts : x <= y,
                          LAMBDA s : Some(<<s, Unwrap(Match(atoms, t, s))>>))))

\* the text that atom i, not the first, matched
Group(text, found, i) == SubSeq(text, found[2][i - 1], found[2][i] - 1)

\* Regex::replace_all, for expressions that match no empty text and replacements
\* that hold no "$"
replace_all(atoms, text, rep) ==
  With(text,
       LAMBDA t :
         LET R[p \in 1..(Len(t) + 1)] ==
               With({ s \in p..Len(t) : IsSome(Match(atoms, t, s)) },
                    LAMBDA starts :
                      IF starts = {} THEN SubSeq(t, p, Len(t))
                      ELSE With(CHOOSE x \in starts : \A y \in starts : x <= y,
                                LAMBDA s : SubSeq(t, p, s - 1) \o rep
                                             \o R[Unwrap(Match(atoms, t, s))[Len(atoms)]]))
         IN  R[1])

S_python_object == <<"!","!","p","y","t","h","o","n","/","o","b","j","e","c","t",":">>
S_subject_open == <<"s","u","b","j","e","c","t",":"," ","\"">>
S_Unknown_text == <<"U","n","k","n","o","w","n">>

re_python == << <<"lit", S_python_object>>, <<"many", "w", 1>>, <<"lit", <<".">>>> >>
re_anchor == << <<"lit", <<"&">>>>, <<"many", "w", 1>> >>
re_alias == << <<"lit", <<"*">>>>, <<"many", "w", 1>> >>
re_tuple ==
  << <<"lit", <<"!","!","p","y","t","h","o","n","/","t","u","p","l","e">>>>, <<"many", "s", 0>>, <<"lit", <<"[">>>>, <<"lazy", "any">>,
     <<"lit", <<"]">>>> >>
re_subject ==
  << <<"lit", <<"s","u","b","j","e","c","t",":">>>>, <<"many", "s", 0>>, <<"lit", S_python_object>>, <<"lazy", "any">>,
     <<"lit", <<"_","c","h","u","n","k","s",":">>>>, <<"many", "s", 0>>, <<"lit", <<"[">>>>, <<"lazy", "any">>,
     <<"lit", <<"]">>>> >>
re_text_double ==
  << <<"lit", <<"-">>>>, <<"many", "s", 0>>, <<"lit", <<"\"">>>>, <<"lazy", "line">>, <<"lit", <<"\"">>>> >>
re_text_single ==
  << <<"lit", <<"-">>>>, <<"many", "s", 0>>, <<"lit", <<"'">>>>, <<"lazy", "line">>, <<"lit", <<"'">>>> >>
re_charset ==
  << <<"lit", <<"!","!","p","y","t","h","o","n","/","o","b","j","e","c","t",":","e","m","a","i","l",".","c","h","a","r","s","e","t",".","C","h","a","r","s","e","t">>>>, <<"lazy", "any">>,
     <<"lit", <<"i","n","p","u","t","_","c","h","a","r","s","e","t",":">>>>, <<"lazy", "any">>, <<"lit", NL>>, <<"many", "s", 0>>,
     <<"lit", <<"h","e","a","d","e","r","_","e","n","c","o","d","i","n","g",":">>>>, <<"lazy", "any">>, <<"lit", NL>>, <<"many", "s", 0>>,
     <<"lit", <<"b","o","d","y","_","e","n","c","o","d","i","n","g",":">>>>, <<"lazy", "any">>, <<"lit", NL>>, <<"many", "s", 0>>,
     <<"lit", <<"o","u","t","p","u","t","_","c","h","a","r","s","e","t",":">>>>, <<"lazy", "any">>, <<"lit", NL>>, <<"many", "s", 0>>,
     <<"lit", <<"i","n","p","u","t","_","c","o","d","e","c",":">>>>, <<"lazy", "any">>, <<"lit", NL>>, <<"many", "s", 0>>,
     <<"lit", <<"o","u","t","p","u","t","_","c","o","d","e","c",":">>>>, <<"lazy", "any">> >>

\* the subject text found in the chunks, double-quoted first, then single-quoted
subject_text(chunks) ==
  With(captures(re_text_double, chunks),
       LAMBDA double :
         IF IsSome(double) THEN Group(chunks, Unwrap(double), 4)
         ELSE With(captures(re_text_single, chunks),
                   LAMBDA single : IF IsSome(single) THEN Group(chunks, Unwrap(single), 4)
                                   ELSE S_Unknown_text))

\* the step of fix_complex_yaml_tags that cleans up the subject field
plain_subject(fixed) ==
  With(captures(re_subject, fixed),
       LAMBDA caps :
         IF IsSome(caps)
         THEN With(subject_text(Group(fixed, Unwrap(caps), 8)),
                   LAMBDA text :
                     replace_all(re_subject, fixed, S_subject_open \o text \o <<"\"">>))
         ELSE fixed)

\* fix_complex_yaml_tags
fix_complex_yaml_tags(content) ==
  With(replace_all(re_python, content, <<>>), LAMBDA no_python :
  With(replace_all(re_anchor, no_python, <<>>), LAMBDA no_anchor :
  With(replace_all(re_alias, no_anchor, <<>>), LAMBDA no_alias :
  With(replace_all(re_tuple, no_alias, <<>>), LAMBDA no_tuple :
  With(plain_subject(no_tuple), LAMBDA no_chunks :
    replace_all(re_charset, no_chunks, <<>>))))))

\* the expression format!(r"{}:\s*([^\n]+)", field)
re_field(field) == << <<"lit", field \o <<":">>>>, <<"many", "s", 0>>, <<"many", "line", 1>> >>

re_subject_double ==
  << <<"lit", <<"s","u","b","j","e","c","t",":">>>>, <<"lazy", "line">>, <<"lit", <<"\"">>>>, <<"lazy", "line">>,
     <<"lit", <<"\"">>>> >>

\* the value create_simple_frontmatter gives to one of from, to, date
field_value(field, content) ==
  With(captures(re_field(field), content),
       LAMBDA caps : IF IsSome(caps) THEN trim(Group(content, Unwrap(caps), 3))
                     ELSE S_Unknown_text)

\* create_simple_frontmatter : the values of from, to, date and subject; tags and
\* attachments are empty sequences.  re_subject_double always compiles, so the
\* single-quoted expression is never tried.
create_simple_frontmatter(content) ==
  With(captures(re_subject_double, content),
       LAMBDA caps :
         [ from |-> field_value(K_from, content),
           to |-> field_value(<<"t","o">>, content),
           date |-> field_value(K_date, content),
           subject |-> IF IsSome(caps) THEN Group(content, Unwrap(caps), 4)
                       ELSE S_Unknown_text ])

\* a string serde_yaml cannot write as a plain scalar: empty, starting with an
\* indicator, holding ": " or " #", ending with ":", or read back as a number, a
\* boolean or null
NeedsQuotes(s) ==
  \/ s = <<>>
  \/ s[1] \in Indicators \cup {"\"", "-", "?", ":", "="} \cup WhiteSpace
  \/ s[Len(s)] \in {":"} \cup WhiteSpace
  \/ contains(s, <<":"," ">>) \/ contains(s, <<" ","#">>)
  \/ \A i \in 1..Len(s) : s[i] \in { Digits[d] : d \in 1..Len(Digits) }
  \/ s \in {<<"t","r","u","e">>, <<"f","a","l","s","e">>, <<"n","u","l","l">>, <<"~">>}

RECURSIVE DoubleQuotes(_)
DoubleQuotes(s) ==
  IF s = <<>> THEN <<>>
  ELSE (IF s[1] = "'" THEN <<"'", "'">> ELSE <<s[1]>>) \o DoubleQuotes(Tail(s))

\* the scalar serde_yaml writes for a string of one line
yaml_scalar(s) == IF NeedsQuotes(s) THEN <<"'">> \o DoubleQuotes(s) \o <<"'">> ELSE s

\* serde_yaml::to_string(&simple_frontmatter)
yaml_to_string(fm) ==
  <<"f","r","o","m",":"," ">> \o yaml_scalar(fm.from) \o NL
    \o <<"t","o",":"," ">> \o yaml_scalar(fm.to) \o NL
    \o <<"d","a","t","e",":"," ">> \o yaml_scalar(fm.date) \o NL
    \o <<"s","u","b","j","e","c","t",":"," ">> \o yaml_scalar(fm.subject) \o NL
    \o <<"t","a","g","s",":"," ","[","]">> \o NL
    \o <<"a","t","t","a","c","h","m","e","n","t","s",":"," ","[","]">> \o NL

\* the part of fix_email_file that follows the dry_run test: the fixed content is
\* written when its frontmatter parses, a rewritten frontmatter with the body
\* when it does not, nothing when there is no frontmatter
write_fixed(content, fixed_content) ==
  With(extract_frontmatter(fixed_content),
       LAMBDA parts :
         IF parts = None THEN [kind |-> "Ok", fixed |-> FALSE, write |-> None]
         ELSE IF yaml_from_str(Unwrap(parts)[1]) # <<"Err">>
              THEN [kind |-> "Ok", fixed |-> TRUE, write |-> Some(fixed_content)]
         ELSE With(create_simple_frontmatter(content),
                   LAMBDA simple_frontmatter :
                     [ kind |-> "Ok", fixed |-> TRUE,
                       write |-> Some(DELIM \o NL \o yaml_to_string(simple_frontmatter)
                                        \o DELIM \o NL \o NL \o Unwrap(parts)[2]) ]))

\* variant of fix_email_file: dry_run is not tested
fix_email_file_no_dry_run(file_path, dry_run) ==
  With(files[file_path],
       LAMBDA content :
         IF content = Unreadable THEN [kind |-> "Err", write |-> None]
         ELSE IF ~contains(content, S_python_object)
              THEN [kind |-> "Ok", fixed |-> FALSE, write |-> None]
         ELSE With(fix_complex_yaml_tags(content),
                   LAMBDA fixed_content : write_fixed(content, fixed_content)))

\* fix_email_file : Err, or Ok(fixed), and the content it writes to the file, if any
fix_email_file(file_path, dry_run) ==
  With(files[file_path],
       LAMBDA content :
         IF content = Unreadable THEN [kind |-> "Err", write |-> None]
         ELSE IF ~contains(content, S_python_object)
              THEN [kind |-> "Ok", fixed |-> FALSE, write |-> None]
         ELSE With(fix_complex_yaml_tags(content),
                   LAMBDA fixed_content :
                     IF dry_run THEN [kind |-> "Ok", fixed |-> TRUE, write |-> None]
                     ELSE write_fixed(content, fixed_content)))

\* the filter of scan_and_fix_directory over the walked entries
IsFixEntry(file_path) ==
  /\ extension(file_path) = Some(S_md)
  /\ ~contains(file_path, S_attachments)

\* FixStats::default()
NewFixStats == [total_scanned |-> 0, files_fixed |-> 0, files_rewritten |-> 0, errors |-> 0]

\* stored contents: no tag; a tag whose removal leaves YAML that parses; a tag
\* whose removal leaves YAML that does not; a tag and no frontmatter; a tag in the
\* body only; a tag no expression matches; an anchor and no tag
T_clean == <<"-","-","-","\n","f","r","o","m",":"," ","a","@","x",".","i","o","\n","s","u","b","j","e","c","t",":"," ","H","i","\n","-","-","-","\n","B","o","d","y">>
T_header == <<"-","-","-","\n","f","r","o","m",":"," ","a","@","x",".","i","o","\n","s","u","b","j","e","c","t",":"," ","!","!","p","y","t","h","o","n","/","o","b","j","e","c","t",":","e","m","a","i","l",".","h","e","a","d","e","r",".","H","e","a","d","e","r","\n","-","-","-","\n","B","o","d","y">>
T_broken == <<"-","-","-","\n","f","r","o","m",":"," ","a","@","x",".","i","o","\n","s","u","b","j","e","c","t",":"," ","!","!","p","y","t","h","o","n","/","o","b","j","e","c","t",":","e","m","a","i","l",".","x"," ","\"","H","i","\"","\n"," "," ","_","c","h","u","n","k","s",":"," ","[","\n","-","-","-","\n","B","o","d","y">>
T_no_frontmatter == <<"s","u","b","j","e","c","t",":"," ","!","!","p","y","t","h","o","n","/","o","b","j","e","c","t",":","e","m","a","i","l",".","h","e","a","d","e","r",".","H","e","a","d","e","r","\n","B","o","d","y">>
T_tag_in_body == <<"-","-","-","\n","f","r","o","m",":"," ","a","@","x",".","i","o","\n","-","-","-","\n","s","e","e"," ","!","!","p","y","t","h","o","n","/","o","b","j","e","c","t",":","a",".","b">>
T_unmatched == <<"-","-","-","\n","f","r","o","m",":"," ","a","@","x",".","i","o","\n","-","-","-","\n","!","!","p","y","t","h","o","n","/","o","b","j","e","c","t",":"," ","x">>
T_anchor == <<"-","-","-","\n","f","r","o","m",":"," ","&","a"," ","x","\n","-","-","-","\n","B","o","d","y">>

FixContents ==
  {T_clean, T_header, T_broken, T_no_frontmatter, T_tag_in_body, T_unmatched, T_anchor,
   Unreadable}

\* the files under the directory mail
FixPaths == {P_one, P_two, P_att, P_txt}
D_mail == <<"m","a","i","l">>

InitFix ==
  /\ config = TwoRunConfig
  /\ clock = Noon_Mar01
  /\ files \in { [ p \in FixPaths |->
                     CASE p = P_one -> c1 [] p = P_two -> c2 [] OTHER -> T_header ] :
                 c1 \in FixContents, c2 \in FixContents }
  /\ pc = "idle"
  /\ entries = <<>>
  /\ stats = NewStats
  /\ categories = EmptyMap
  /\ sorts = 0
  /\ result = NotCalled
  /\ runs = <<>>
  /\ report = None
  /\ retry = NoRetry
  /\ summary = None
  /\ merge = NoMerge
  /\ store = NoStore
  /\ \E directory \in {D_mail, P_one, P_att}, dry_run \in BOOLEAN :
       fix = [ pc |-> "ready", directory |-> directory, dry_run |-> dry_run,
               entries |-> <<>>, stats |-> NewFixStats ]

\* scan_and_fix_directory, up to the for loop: the path itself when it is a file,
\* else the filtered entries in the order WalkDir happens to yield them
FixStart ==
  /\ fix.pc = "ready"
  /\ \E order \in (IF fix.directory \in DOMAIN files THEN {<<fix.directory>>}
                   ELSE Orderings({ p \in DOMAIN files : IsFixEntry(p) })) :
       fix' = [fix EXCEPT !.pc = "scanning", !.entries = order]
  /\ UNCHANGED <<config, clock, files, pc, entries, stats, categories, sorts, result,
                 runs, report, retry, summary, merge, store>>

\* one turn of the for loop
FixFile ==
  /\ fix.pc = "scanning" /\ fix.entries # <<>>
  /\ \E file_path \in {Head(fix.entries)} :
     \E fixed \in {fix_email_file(file_path, fix.dry_run)} :
         /\ files' = IF IsSome(fixed.write)
                     THEN [files EXCEPT ![file_path] = Unwrap(fixed.write)]
                     ELSE files
         /\ fix' = [ fix EXCEPT
                       !.entries = Tail(@),
                       !.stats.total_scanned = @ + 1,
                       !.stats.files_fixed =
                         IF fixed.kind = "Ok" /\ fixed.fixed THEN @ + 1 ELSE @,
                       !.stats.errors = IF fixed.kind = "Err" THEN @ + 1 ELSE @ ]
  /\ UNCHANGED <<config, clock, pc, entries, stats, categories, sorts, result, runs,
                 report, retry, summary, merge, store>>

\* scan_and_fix_directory returns Ok(stats)
FixReturn ==
  /\ fix.pc = "scanning" /\ fix.entries = <<>>
  /\ fix' = [fix EXCEPT !.pc = "done"]
  /\ UNCHANGED <<config, clock, files, pc, entries, stats, categories, sorts, result,
                 runs, report, retry, summary, merge, store>>

NextFix == FixStart \/ FixFile \/ FixReturn

SpecFix == InitFix /\ [][NextFix]_vars

-----------------------------------------------------------------------------
(* Shorthands of the properties below                                       *)

\* the last call returned Ok(Some(record)); Rec is that record
HasRec == result.kind = "Some"
Rec == result.data

\* the body text of a content that has a metadata block
BodyOf(content) == Unwrap(extract_frontmatter(content))[2]

\* case-insensitive substring match of a list entry in a text
Matches(entry, text) == contains(to_lowercase(text), to_lowercase(entry))
AnyMatches(list, text) == \E i \in 1..Len(list) : Matches(list[i], text)
HowManyMatch(list, text) == Cardinality({ i \in 1..Len(list) : Matches(list[i], text) })

\* the three whitelist patterns as the specification words them
PatternMatches(entry, sender) ==
  LET e == to_lowercase(entry)
      x == to_lowercase(sender)
  IN  \/ e = x
      \/ (e # <<>> /\ e[1] = "@" /\ ends_with(x, e))
      \/ (e # <<>> /\ e[Len(e)] = "@" /\ starts_with(x, e))

SomePatternMatches(sender) ==
  \E i \in 1..Len(config.whitelist) : PatternMatches(config.whitelist[i], sender)

\* the indicators of section 4.3 of the specification
KeepIndicators(rec, body_text) ==
  \/ AnyMatches(config.keep_keywords, rec.subject)
  \/ AnyMatches(config.keep_senders, rec.sender)
  \/ (rec.has_attachments /\ config.keep_with_attachments)
  \/ \E t \in {S_contract, S_invoice, S_legal, S_urgent, S_important} :
       contains(to_lowercase(body_text), t)

DeleteIndicators(rec) ==
  \/ rec.email_type = "Newsletter"
  \/ AnyMatches(config.delete_keywords, rec.subject)
  \/ AnyMatches(config.delete_senders, rec.sender)

-----------------------------------------------------------------------------
(* C1 .. C10                                                                *)

\* C1: a record whose sender is_whitelisted accepts is categorized Keep, whatever
\* its score, type, keywords or senders.
C1_WhitelistForcesKeep ==
  (HasRec /\ is_whitelisted(Rec.sender)) => Rec.category = "Keep"

\* a whitelisted record with a delete indicator and a score <= -2 that is kept
C1_Witness ==
  /\ HasRec /\ is_whitelisted(Rec.sender)
  /\ DeleteIndicators(Rec) /\ Rec.score <= -2
  /\ ~KeepIndicators(Rec, BodyOf(files[P_one]))
  /\ Rec.category = "Keep"

\* C2 as stated: is_whitelisted(sender) is true exactly when some entry matches one
\* of the three patterns, case-insensitively.
C2_Original ==
  HasRec => (is_whitelisted(Rec.sender) <=> SomePatternMatches(Rec.sender))

\* C2 amended: is_whitelisted(sender) is true exactly when the sender is not empty
\* and some entry matches one of the three patterns, case-insensitively; with an
\* empty whitelist it is false for every sender.
C2_WhitelistPatterns ==
  HasRec =>
    /\ is_whitelisted(Rec.sender) <=> (Rec.sender # <<>> /\ SomePatternMatches(Rec.sender))
    /\ config.whitelist = <<>> => ~is_whitelisted(Rec.sender)

\* a sender accepted although it is, as written, equal to no entry
C2_Witness ==
  /\ HasRec /\ is_whitelisted(Rec.sender)
  /\ \A i \in 1..Len(config.whitelist) : config.whitelist[i] # Rec.sender
  /\ \E i \in 1..Len(config.whitelist) :
       to_lowercase(config.whitelist[i]) = to_lowercase(Rec.sender)

\* the ordered short-circuit procedure of the classifier
Procedure(rec, body_text) ==
  IF is_whitelisted(rec.sender) THEN "Keep"
  ELSE IF KeepIndicators(rec, body_text) THEN "Keep"
  ELSE IF DeleteIndicators(rec) \/ rec.score <= -2 THEN "Delete"
  ELSE IF rec.score >= 2 \/ rec.body_length > config.summarize_max_length THEN "Keep"
  ELSE "Summarize"

\* C3: the category of every record is one of Delete, Summarize and Keep, the one the
\* ordered procedure whitelist -> keep indicators -> delete indicators or
\* score <= -2 -> score >= 2 or long body -> Summarize yields.
C3_OrderedProcedure ==
  HasRec =>
    /\ Rec.category \in {"Delete", "Summarize", "Keep"}
    /\ Rec.category = Procedure(Rec, BodyOf(files[P_one]))

\* a record deleted by its score alone, at the threshold
C3_Witness ==
  /\ HasRec /\ ~is_whitelisted(Rec.sender)
  /\ ~KeepIndicators(Rec, BodyOf(files[P_one])) /\ ~DeleteIndicators(Rec)
  /\ Rec.score = -2 /\ Rec.category = "Delete"

\* C4: a record whose subject contains a keep keyword is categorized Keep, even with
\* a delete keyword in the subject, another delete indicator or a score <= -2.
C4_KeepBeforeDelete ==
  (HasRec /\ AnyMatches(config.keep_keywords, Rec.subject)) => Rec.category = "Keep"

\* a kept record with a keep and a delete keyword in its subject and a score <= -2,
\* its sender not whitelisted
C4_Witness ==
  /\ HasRec /\ ~is_whitelisted(Rec.sender)
  /\ AnyMatches(config.keep_keywords, Rec.subject)
  /\ AnyMatches(config.delete_keywords, Rec.subject)
  /\ Rec.score <= -2 /\ Rec.category = "Keep"

\* the subject and the body match no keep indicator
NoSubjectBodyKeep(rec, body_text) ==
  /\ ~AnyMatches(config.keep_keywords, rec.subject)
  /\ ~\E t \in {S_contract, S_invoice, S_legal, S_urgent, S_important} :
        contains(to_lowercase(body_text), t)

\* C5 as stated: sender in delete_senders, no keep indicator in subject or body,
\* score <= -2: the record is categorized Delete.
C5_Original ==
  ( /\ HasRec /\ AnyMatches(config.delete_senders, Rec.sender)
    /\ NoSubjectBodyKeep(Rec, BodyOf(files[P_one]))
    /\ Rec.score <= -2 ) => Rec.category = "Delete"

\* C5 amended: a record whose sender matches a delete_senders entry and is not
\* whitelisted, which has no keep indicator at all (keep keyword in the subject,
\* keep_senders entry, kept attachments, important term in the body) and whose score
\* is <= -2 is categorized Delete.
C5_BlacklistedSenderDeleted ==
  ( /\ HasRec /\ AnyMatches(config.delete_senders, Rec.sender)
    /\ ~is_whitelisted(Rec.sender)
    /\ ~KeepIndicators(Rec, BodyOf(files[P_one]))
    /\ Rec.score <= -2 ) => Rec.category = "Delete"

\* such a record, with a body longer than summarize_max_length
C5_Witness ==
  /\ HasRec /\ AnyMatches(config.delete_senders, Rec.sender)
  /\ ~is_whitelisted(Rec.sender)
  /\ ~KeepIndicators(Rec, BodyOf(files[P_one]))
  /\ Rec.score <= -2 /\ Rec.body_length > config.summarize_max_length
  /\ Rec.category = "Delete"

\* two calls that returned a record
BothSome(i, j) == runs[i].result.kind = "Some" /\ runs[j].result.kind = "Some"

SameOutcome(i, j) ==
  /\ runs[i].result.data.score = runs[j].result.data.score
  /\ runs[i].result.data.category = runs[j].result.data.category

\* C6 as stated: two runs on identical content (the configuration is the same
\* throughout) yield the same score and the same category.
C6_Original ==
  \A i, j \in 1..Len(runs) :
    (runs[i].content = runs[j].content /\ BothSome(i, j)) => SameOutcome(i, j)

\* whole days from the record's date to an instant, toward zero
WholeDays(t, date) ==
  IF t >= date.secs THEN (t - date.secs) \div 86400 ELSE -((date.secs - t) \div 86400)

\* the two runs are as many whole days away from the date of the record
SameAge(i, j) ==
  LET date == runs[i].result.data.date
  IN  IsSome(date) => WholeDays(runs[i].clock, Unwrap(date)) = WholeDays(runs[j].clock, Unwrap(date))

\* C6 amended: two runs on identical content under the same configuration yield the
\* same score and the same category when the record has no parsed date or both runs
\* are the same number of whole days away from it; the clock is an input.
C6_SameAgeSameOutcome ==
  \A i, j \in 1..Len(runs) :
    (runs[i].content = runs[j].content /\ BothSome(i, j) /\ SameAge(i, j))
      => SameOutcome(i, j)

\* two runs on the same dated content at different instants of the same day
C6_Witness ==
  \E i, j \in 1..Len(runs) :
    /\ runs[i].content = runs[j].content /\ BothSome(i, j)
    /\ IsSome(runs[i].result.data.date)
    /\ runs[i].clock # runs[j].clock /\ SameAge(i, j)
    /\ SameOutcome(i, j)

\* the fields of an EmailData other than score and category
InputFields ==
  {"file_path", "file_name", "file_size", "body_length", "has_attachments",
   "attachment_count", "date", "age_days", "sender", "recipients", "subject", "tags",
   "email_type"}

AgreeOn(fields, i, j) == \A f \in fields : runs[i].result.data[f] = runs[j].result.data[f]

\* C7 as stated: two records that agree on every field other than score have the
\* same score and the same category.
C7_Original ==
  \A i, j \in 1..Len(runs) :
    (BothSome(i, j) /\ AgreeOn(InputFields \cup {"category"}, i, j)) => SameOutcome(i, j)

\* C7 amended: score and category are a function of the record's fields other than
\* score and category, the body text and the configuration: two records that agree
\* on these fields and were read with the same body text have the same score and the
\* same category.
C7_FunctionOfFieldsAndBody ==
  \A i, j \in 1..Len(runs) :
    ( /\ BothSome(i, j) /\ AgreeOn(InputFields, i, j)
      /\ BodyOf(runs[i].content) = BodyOf(runs[j].content) ) => SameOutcome(i, j)

\* two records read from different contents that agree on fields and body
C7_Witness ==
  \E i, j \in 1..Len(runs) :
    /\ BothSome(i, j) /\ AgreeOn(InputFields, i, j)
    /\ runs[i].content # runs[j].content
    /\ BodyOf(runs[i].content) = BodyOf(runs[j].content)
    /\ SameOutcome(i, j)

\* the seven terms of the score
TypeTerm(rec) ==
  IF TypeLabel(rec.email_type) \in DOMAIN config.type_weights
  THEN config.type_weights[TypeLabel(rec.email_type)] ELSE 0

AgeTerm(rec) ==
  IF ~IsSome(rec.age_days) THEN 0
  ELSE IF Unwrap(rec.age_days) <= config.recent_threshold_days THEN 2
  ELSE IF Unwrap(rec.age_days) >= config.old_threshold_days THEN -1
  ELSE 0

SizeTerm(rec) ==
  IF rec.body_length <= config.small_email_threshold THEN -1
  ELSE IF rec.body_length >= config.large_email_threshold THEN 1
  ELSE 0

AttachmentTerm(rec) ==
  IF ~rec.has_attachments THEN 0 ELSE IF config.keep_with_attachments THEN 2 ELSE -1

SubjectTerm(rec) ==
  2 * HowManyMatch(config.keep_keywords, rec.subject)
    - HowManyMatch(config.delete_keywords, rec.subject)

SenderTerm(rec) ==
  (IF AnyMatches(config.delete_senders, rec.sender) THEN -3 ELSE 0)
    + (IF AnyMatches(config.keep_senders, rec.sender) THEN 3 ELSE 0)

NineTerms ==
  {S_contract, S_invoice, S_legal, S_urgent, S_important, S_confidential,
   S_agreement, S_signature, S_payment}

TermsInBody(body_text) == { t \in NineTerms : contains(to_lowercase(body_text), t) }

BodyTerm(body_text) == IF TermsInBody(body_text) # {} THEN 2 ELSE 0

\* C8: the score is the unclamped sum of the seven terms; the sender term is -3 for
\* a delete_senders match plus +3 for a keep_senders match, and the body bonus is
\* one +2 however many important terms occur.
C8_ScoreIsSum ==
  HasRec =>
    Rec.score = TypeTerm(Rec) + AgeTerm(Rec) + SizeTerm(Rec) + AttachmentTerm(Rec)
                  + SubjectTerm(Rec) + SenderTerm(Rec) + BodyTerm(BodyOf(files[P_one]))

\* a sender on both lists, two important terms in the body, two delete keywords
C8_Witness ==
  /\ HasRec
  /\ AnyMatches(config.delete_senders, Rec.sender)
  /\ AnyMatches(config.keep_senders, Rec.sender)
  /\ Cardinality(TermsInBody(BodyOf(files[P_one]))) >= 2
  /\ HowManyMatch(config.delete_keywords, Rec.subject) >= 2
  /\ Rec.score = TypeTerm(Rec) + AgeTerm(Rec) + SizeTerm(Rec) + AttachmentTerm(Rec)
                   + SubjectTerm(Rec) + 0 + 2

\* every record stored in the per-category lists
StoredRecords ==
  UNION { { categories[c][i] : i \in 1..Len(categories[c]) } : c \in DOMAIN categories }

\* the positions of the per-category lists
StoredPositions ==
  UNION { { <<c, i>> : i \in 1..Len(categories[c]) } : c \in DOMAIN categories }

NewsletterSubject(subject) ==
  \E w \in {S_newsletter, S_bulletin, S_digest} : contains(to_lowercase(subject), w)

\* C9: every ingested record is a Newsletter if its lowercased subject contains
\* "newsletter", "bulletin" or "digest" and Direct otherwise; no other type occurs on
\* a record or as a key of by_type.
C9_OnlyNewsletterOrDirect ==
  /\ \A r \in StoredRecords \cup (IF HasRec THEN {Rec} ELSE {}) :
       r.email_type = IF NewsletterSubject(r.subject) THEN "Newsletter" ELSE "Direct"
  /\ DOMAIN stats.by_type \subseteq {"newsletter", "direct"}
  /\ \A k \in DOMAIN stats.by_type :
       stats.by_type[k] = Cardinality({ p \in StoredPositions :
                                          TypeLabel(categories[p[1]][p[2]].email_type) = k })

\* a finished batch that folded a newsletter, a direct record and one without subject
C9_Witness ==
  /\ pc = "idle" /\ sorts > 0
  /\ DOMAIN stats.by_type = {"newsletter", "direct"}
  /\ \E r \in StoredRecords : r.subject = <<>> /\ r.email_type = "Direct"

\* the four skip conditions; the length is counted by Size
TooShort(content, Size(_)) == Size(trim(content)) < 10
NoOpening(content) == ~starts_with(content, DELIM)
NoClosing(content) ==
  ~\E i \in 2..Len(lines(content)) : trim(lines(content)[i]) = DELIM
Unparsable(content) ==
  /\ ~NoOpening(content) /\ ~NoClosing(content)
  /\ yaml_from_str(Unwrap(extract_frontmatter(content))[1]) = <<"Err">>

\* C10 as stated: Ok(None) when the trimmed content has fewer than 10 characters, or
\* does not begin with "---", or has no closing delimiter line, or its metadata block
\* does not parse.
C10_Original ==
  ( /\ pc = "returned"
    /\ \/ TooShort(files[P_one], chars_count)
       \/ NoOpening(files[P_one])
       \/ NoClosing(files[P_one])
       \/ Unparsable(files[P_one]) ) => result = ResNone

\* C10 amended: Ok(None) when the trimmed content is shorter than 10 bytes of UTF-8,
\* or does not begin with "---", or has no closing delimiter line, or its metadata
\* block does not parse.
C10_SkipsAreNone ==
  ( /\ pc = "returned"
    /\ \/ TooShort(files[P_one], len)
       \/ NoOpening(files[P_one])
       \/ NoClosing(files[P_one])
       \/ Unparsable(files[P_one]) ) => result = ResNone

\* a content of ten bytes or more, with both delimiters, whose metadata do not parse
C10_Witness ==
  /\ pc = "returned"
  /\ ~TooShort(files[P_one], len) /\ Unparsable(files[P_one])
  /\ result = ResNone

-----------------------------------------------------------------------------
(* C11 .. C20                                                               *)

\* the files the filter of sort_emails lets through, and those that yield a record
ScannedPaths == { p \in WalkedPaths : IsScanned(p) }
RecordPaths == { p \in ScannedPaths : analyze_email_file(p).kind = "Some" }

\* the record stored at a position of the per-category lists
Stored(p) == categories[p[1]][p[2]]

\* C11: a file that cannot be read does not abort the batch: sort_emails does not end
\* in failure, and when it has ended every scanned file that yields a record has been
\* folded.
C11_ReadFailureDoesNotAbort ==
  (sorts = 1 /\ pc # "sorting") =>
    /\ pc = "idle"
    /\ stats.total_emails = Cardinality(RecordPaths)

\* C12: a skip-class file is counted: the turn of the for loop that finds one changes
\* a count of the sorter's statistics.
C12_SkipIsCounted ==
  [][ (pc = "sorting" /\ entries # <<>> /\ entries' = Tail(entries) /\ result'.kind = "None")
        => stats' # stats ]_vars

\* the sum of the values of a map
RECURSIVE SumMap(_)
SumMap(map) ==
  IF DOMAIN map = {} THEN 0
  ELSE LET k == CHOOSE x \in DOMAIN map : TRUE
       IN  map[k] + SumMap([ x \in DOMAIN map \ {k} |-> map[x] ])

\* C13: total_emails is the number of folded records (after a batch that returned
\* Ok, the number of scanned files that yield a record, once per batch); every
\* category, type label and sender count is the number of folded records with that
\* value; by_category, by_type and by_sender each sum to total_emails.
C13_CountsMatchFoldedRecords ==
  /\ stats.total_emails = Cardinality(StoredPositions)
  /\ (pc = "idle" /\ sorts >= 1) => stats.total_emails = sorts * Cardinality(RecordPaths)
  /\ DOMAIN stats.by_category = {"delete", "summarize", "keep"}
  /\ \A c \in {"Delete", "Summarize", "Keep"} :
       stats.by_category[CategoryLabel(c)]
         = Cardinality({ p \in StoredPositions : Stored(p).category = c })
  /\ DOMAIN stats.by_type = { TypeLabel(Stored(p).email_type) : p \in StoredPositions }
  /\ \A t \in DOMAIN stats.by_type :
       stats.by_type[t]
         = Cardinality({ p \in StoredPositions : TypeLabel(Stored(p).email_type) = t })
  /\ DOMAIN stats.by_sender = { Stored(p).sender : p \in StoredPositions }
  /\ \A s \in DOMAIN stats.by_sender :
       stats.by_sender[s] = Cardinality({ p \in StoredPositions : Stored(p).sender = s })
  /\ SumMap(stats.by_category) = stats.total_emails
  /\ SumMap(stats.by_type) = stats.total_emails
  /\ SumMap(stats.by_sender) = stats.total_emails

\* a finished batch of three records, one of them without sender and two from the
\* same sender
C13_Witness ==
  /\ pc = "idle" /\ sorts = 1 /\ stats.total_emails = 3
  /\ <<>> \in DOMAIN stats.by_sender
  /\ \E s \in DOMAIN stats.by_sender : stats.by_sender[s] = 2

\* the report of the last generate_report call
HasReport == IsSome(report)
Report == Unwrap(report)
TopList == Report.details.by_sender

\* the senders named by the top list
Listed == { TopList[i][1] : i \in 1..Len(TopList) }

\* C14: details.by_sender has at most 10 entries, each a sender with its count, no
\* sender twice, in order of non-increasing count, and no sender left out has a
\* strictly larger count than a sender of the list.
C14_TopSenders ==
  HasReport =>
    /\ Len(TopList) <= 10
    /\ Len(TopList) = (IF Cardinality(DOMAIN stats.by_sender) < 10
                       THEN Cardinality(DOMAIN stats.by_sender) ELSE 10)
    /\ \A i \in 1..Len(TopList) :
         /\ TopList[i][1] \in DOMAIN stats.by_sender
         /\ TopList[i][2] = stats.by_sender[TopList[i][1]]
    /\ \A i, j \in 1..Len(TopList) : i < j =>
         /\ TopList[i][1] # TopList[j][1]
         /\ TopList[i][2] >= TopList[j][2]
    /\ \A out \in DOMAIN stats.by_sender \ Listed :
         \A i \in 1..Len(TopList) : stats.by_sender[out] <= TopList[i][2]

\* a report of more than ten senders with different counts, some left out
C14_Witness ==
  /\ HasReport
  /\ Cardinality(DOMAIN stats.by_sender) > 10
  /\ Len(TopList) = 10
  /\ TopList[1][2] > TopList[10][2]
  /\ DOMAIN stats.by_sender \ Listed # {}

\* C15: the top-senders list is reproducible: whatever the order in which the map of
\* senders is iterated, generate_report yields the same details.by_sender list.
C15_TopSendersReproducible ==
  HasReport =>
    \A iteration \in IterOrders(stats.by_sender) :
      top_senders(stats.by_sender, iteration) = TopList

\* the tenths of a percentage written with one decimal, as "31.2"
TenthsOf(text) ==
  LET dot == CHOOSE i \in 1..Len(text) : text[i] = "."
  IN  10 * Num(SubSeq(text, 1, dot - 1)) + Num(SubSeq(text, dot + 1, dot + 1))

\* the percentage at the head of a recommendation, in tenths
PctTenths(label) ==
  LET text == Report.summary.recommendations[label]
      sign == CHOOSE i \in 1..Len(text) : text[i] = "%"
  IN  TenthsOf(SubSeq(text, 1, sign - 1))

Abs(x) == IF x < 0 THEN -x ELSE x

\* C16: with total_emails > 0 the report has the three recommendations, each
\* percentage is count * 100 / total within half a tenth, and the three sum to 100
\* within 0.15 (three roundings to one decimal); with total_emails = 0 there is no
\* recommendation.
C16_PercentagesSumTo100 ==
  HasReport =>
    IF Report.summary.total_emails > 0
    THEN /\ DOMAIN Report.summary.recommendations = {"delete", "summarize", "keep"}
         /\ \A k \in {"delete", "summarize", "keep"} :
              2 * Abs(PctTenths(k) * stats.total_emails - 1000 * stats.by_category[k])
                <= stats.total_emails
         /\ 2 * Abs(PctTenths("delete") + PctTenths("summarize") + PctTenths("keep") - 1000)
              <= 3
    ELSE Report.summary.recommendations = EmptyMap

\* a report of 16 records whose percentages 31.25, 31.25 and 37.5 are written 31.2,
\* 31.2 and 37.5 and sum to 99.9
C16_Witness ==
  /\ HasReport
  /\ Report.summary.total_emails = 16
  /\ PctTenths("delete") = 312 /\ PctTenths("summarize") = 312 /\ PctTenths("keep") = 375

\* the statistics after the for loop of sort_emails has visited paths in order
RECURSIVE FoldOver(_, _)
FoldOver(st, paths) ==
  IF paths = <<>> THEN st
  ELSE LET r == analyze_email_file(Head(paths))
       IN  FoldOver(IF r.kind = "Some" THEN FoldStats(st, r.data) ELSE st, Tail(paths))

\* C17: the final statistics do not depend on the order in which the records are
\* folded: after a batch that returned Ok, total_emails, by_category, by_type,
\* by_sender and by_date are those every order of the scanned files gives.
C17_FoldOrderIrrelevant ==
  (pc = "idle" /\ sorts = 1 /\ report = None) =>
    \A order \in Orderings(ScannedPaths) : FoldOver(NewStats, order) = stats

\* a finished batch of three records of three categories, two of them from one sender
\* and dated in different months
C17_Witness ==
  /\ pc = "idle" /\ sorts = 1 /\ report = None
  /\ stats.total_emails = 3
  /\ \A k \in DOMAIN stats.by_category : stats.by_category[k] = 1
  /\ \E s \in DOMAIN stats.by_sender : stats.by_sender[s] = 2
  /\ Cardinality(DOMAIN stats.by_date) = 2

\* C18: in every report, that of an empty batch included, summary.categories has
\* exactly the keys delete, summarize and keep, each count is the number of records
\* listed for that category, and the counts sum to summary.total_emails.
C18_ThreeCategoryKeys ==
  HasReport =>
    /\ DOMAIN Report.summary.categories = {"delete", "summarize", "keep"}
    /\ SumMap(Report.summary.categories) = Report.summary.total_emails
    /\ \A k \in {"delete", "summarize", "keep"} :
         Report.summary.categories[k]
           = (IF k \in DOMAIN Report.categories THEN Len(Report.categories[k]) ELSE 0)

\* the report of the scenario batch: a record from a blacklisted sender, a record
\* with a keep keyword in its subject and a plain record, one per category
C18_Witness ==
  /\ HasReport /\ pc = "idle" /\ sorts = 1
  /\ files[P_one] = B_spam /\ files[P_two] = B_boss /\ files[P_three] = B_plain
  /\ Report.summary.total_emails = 3
  /\ \A k \in {"delete", "summarize", "keep"} : Report.summary.categories[k] = 1

\* the segments of a path, split at "/"
RECURSIVE Segments(_)
Segments(path) ==
  LET slashes == { i \in 1..Len(path) : path[i] = "/" }
  IN  IF slashes = {} THEN <<path>>
      ELSE LET first == CHOOSE i \in slashes : \A j \in slashes : i <= j
           IN  <<SubSeq(path, 1, first - 1)>> \o Segments(SubSeq(path, first + 1, Len(path)))

\* a file named something.md under no folder named attachments
IsRecordFile(path) ==
  LET segs == Segments(path)
      name == segs[Len(segs)]
  IN  /\ Len(name) > 3 /\ ends_with(name, <<".">> \o S_md)
      /\ \A i \in 1..(Len(segs) - 1) : segs[i] # S_attachments

\* C19: the entries sort_emails collects are exactly the walked files that have the
\* extension md and no path segment naming an attachments folder.
C19_ScanFilter ==
  (pc = "sorting" /\ Len(entries) = Cardinality(ScannedPaths)) =>
    { entries[i] : i \in 1..Len(entries) } = { p \in WalkedPaths : IsRecordFile(p) }

\* the list of values an invocation sequence returned
Calls == retry.calls
MaxCalls == IF retry.config.max_retries < 1 THEN 1 ELSE retry.config.max_retries

\* what with_retry guarantees of its calls and of the value it returns, the number
\* of invocations after which it gives up being n
RetryContract(n) ==
  /\ retry.attempts = Len(Calls)
  /\ Len(Calls) <= MaxCalls
  /\ Len(retry.slept) = (IF retry.pc = "sleep" THEN Len(Calls) - 1
                         ELSE IF Calls = <<>> THEN 0
                         ELSE IF retry.pc = "loop" THEN Len(Calls) ELSE Len(Calls) - 1)
  /\ \A i \in 1..(Len(Calls) - 1) : ~Calls[i].ok
  /\ retry.pc = "returned" =>
       /\ Calls # <<>>
       /\ retry.returned = Some(Calls[Len(Calls)])
       /\ ~Calls[Len(Calls)].ok => Len(Calls) = n

\* C20 as stated: when every attempt fails with_retry returns the last error after
\* exactly max_retries invocations.
C20_Original ==
  retry.pc # "none" => RetryContract(retry.config.max_retries)

\* C20 amended: with_retry invokes the operation sequentially, returns the first Ok
\* without a further invocation, returns the last error after exactly
\* max(1, max_retries) invocations when every attempt fails, never invokes the
\* operation more often, and always returns.
C20_RetryContract ==
  /\ [](retry.pc # "none" => RetryContract(MaxCalls))
  /\ <>(retry.pc = "returned")

\* with max_retries = 3, three failing invocations, two sleeps of 1 and 2 seconds
\* between them, and the error of the third invocation returned
C20_Witness ==
  /\ retry.pc = "returned"
  /\ retry.config.max_retries = 3
  /\ Len(Calls) = 3
  /\ Calls[1].value = "temporary failure" /\ Calls[3].value = "always fails"
  /\ retry.slept = <<1, 2>>
  /\ retry.returned = Some(Calls[3])


-----------------------------------------------------------------------------
(* C21 .. C30                                                               *)

\* the score of the returned record when its age is taken away
ScoreWithoutAge == calculate_score([Rec EXCEPT !.age_days = None], BodyOf(files[P_one]))

\* what the age of the returned record adds to its score
AgeContribution == Rec.score - ScoreWithoutAge

Age == Unwrap(Rec.age_days)

\* C24: the age term is +2 when age_days <= recent_threshold_days (negative ages
\* included), otherwise -1 when age_days >= old_threshold_days, otherwise 0; the
\* two contributions never both apply, whatever the order of the thresholds, and a
\* record without a parsed date gets no age contribution.
C24_AgeTerm ==
  HasRec =>
    /\ ~IsSome(Rec.age_days) => AgeContribution = 0
    /\ IsSome(Rec.age_days) =>
         /\ Age <= config.recent_threshold_days => AgeContribution = 2
         /\ (Age > config.recent_threshold_days /\ Age >= config.old_threshold_days)
              => AgeContribution = -1
         /\ (Age > config.recent_threshold_days /\ Age < config.old_threshold_days)
              => AgeContribution = 0

\* a future-dated record whose negative age passes both tests: +2 only
C24_Witness ==
  /\ HasRec
  /\ IsSome(Rec.age_days)
  /\ Age < 0
  /\ Age <= config.recent_threshold_days
  /\ Age >= config.old_threshold_days
  /\ AgeContribution = 2

\* the entries (positions) of a list whose lowercased text occurs in the lowercased
\* subject; an entry listed twice is two entries
MatchingEntries(list, subject) ==
  { i \in 1..Len(list) :
      \E k \in 0..(Len(subject) - Len(list[i])) :
        \A j \in 1..Len(list[i]) :
          LowerChar(subject[k + j]) = LowerChar(list[i][j]) }

\* what is left of the score of the returned record once the six other terms are
\* taken away
SubjectContribution ==
  Rec.score - (TypeTerm(Rec) + AgeTerm(Rec) + SizeTerm(Rec) + AttachmentTerm(Rec)
                 + SenderTerm(Rec) + BodyTerm(BodyOf(files[P_one])))

HasExtracted == result.kind = "Frontmatter" /\ IsSome(result.value)
Extracted == Unwrap(result.value)

\* the lines of the text extract_frontmatter was called on
TextLines == lines(files[P_one])

\* the text is cut at line k: the block is the lines strictly between the first
\* line and line k, the body the lines after line k
CutAt(k) ==
  /\ Extracted[1] = join(SubSeq(TextLines, 2, k - 1), NL)
  /\ Extracted[2] = join(SubSeq(TextLines, k + 1, Len(TextLines)), NL)

\* C26 as stated: the block ends at the first line after the opening one that is
\* exactly "---".
C26_Original ==
  HasExtracted =>
    \E k \in 2..Len(TextLines) :
      /\ TextLines[k] = DELIM
      /\ \A j \in 2..(k - 1) : TextLines[j] # DELIM
      /\ CutAt(k)

\* C26 amended: the block ends at the first line after the opening one that is
\* "---" once leading and trailing whitespace is removed; the block is the lines
\* strictly between the first line and that line, the body the lines after it,
\* later delimiter lines included.
C26_CutAtFirstTrimmedDelimiter ==
  HasExtracted =>
    \E k \in 2..Len(TextLines) :
      /\ trim(TextLines[k]) = DELIM
      /\ \A j \in 2..(k - 1) : trim(TextLines[j]) # DELIM
      /\ CutAt(k)

\* "---", "k: v", " ---", "---": the block is "k: v" and the body is "---"
C26_Witness ==
  /\ HasExtracted
  /\ TextLines = <<DELIM, <<"k", ":", " ", "v">>, <<" ">> \o DELIM, DELIM>>
  /\ Extracted = <<<<"k", ":", " ", "v">>, DELIM>>

\* the stored records that have a parsed date
DatedPositions == { p \in StoredPositions : IsSome(Stored(p).date) }

\* key is the YYYY-MM text of the calendar month of the date dt
IsMonthKeyOf(key, dt) ==
  /\ Len(key) = 7 /\ key[5] = "-"
  /\ IsDigits(SubSeq(key, 1, 4)) /\ IsDigits(SubSeq(key, 6, 7))
  /\ Num(SubSeq(key, 1, 4)) = LocalDate(dt)[1]
  /\ Num(SubSeq(key, 6, 7)) = LocalDate(dt)[2]

\* C27: by_date counts exactly the records that have a parsed date, each under the
\* YYYY-MM key of that date; a record without a date increments no month bucket, so
\* the by_date counts sum to the number of dated records, at most total_emails.
C27_ByDateCountsDatedRecords ==
  /\ \A k \in DOMAIN stats.by_date :
       /\ stats.by_date[k] >= 1
       /\ stats.by_date[k]
            = Cardinality({ p \in DatedPositions : IsMonthKeyOf(k, Unwrap(Stored(p).date)) })
  /\ \A p \in DatedPositions :
       \E k \in DOMAIN stats.by_date : IsMonthKeyOf(k, Unwrap(Stored(p).date))
  /\ SumMap(stats.by_date) = Cardinality(DatedPositions)
  /\ SumMap(stats.by_date) <= stats.total_emails

\* a finished batch of three records: one without a date, one of January and one of
\* February 2024
C27_Witness ==
  /\ pc = "idle" /\ sorts = 1 /\ stats.total_emails = 3
  /\ Cardinality(DatedPositions) = 2
  /\ stats.by_date = ( <<"2","0","2","4","-","0","1">> :> 1 @@ <<"2","0","2","4","-","0","2">> :> 1 )

\* the positions of the per-category lists that hold the record of the file path
PositionsOf(path) == { p \in StoredPositions : Stored(p).file_path = path }

\* the length of the list of a category, 0 when the category has no list yet
ListLength(c) == IF c \in DOMAIN categories THEN Len(categories[c]) ELSE 0

\* the categories map of the report rep holds one summary per record of the lists
\* cats, under the label of the list the record is in
SummarizesLists(rep, cats) ==
  /\ DOMAIN rep.categories = { CategoryLabel(c) : c \in DOMAIN cats }
  /\ \A c \in DOMAIN cats :
       /\ Len(rep.categories[CategoryLabel(c)]) = Len(cats[c])
       /\ \A i \in 1..Len(cats[c]) :
            LET summary_i == rep.categories[CategoryLabel(c)][i]
            IN  /\ BaseDirectory \o <<"/">> \o summary_i.file = cats[c][i].file_path
                /\ summary_i.subject = cats[c][i].subject
                /\ summary_i.sender = cats[c][i].sender
                /\ summary_i.score = cats[c][i].score

\* C30: after any sequence of folds every classified record is stored in exactly
\* one per-category list, the list of its own category; the length of each list is
\* that category's by_category count; and a generated report's categories map holds
\* one summary per stored record under the record's category label.
C30_ListsPartitionRecords ==
  /\ [](/\ \A c \in DOMAIN categories :
             \A i \in 1..Len(categories[c]) : categories[c][i].category = c
        /\ \A path \in WalkedPaths :
             LET held == PositionsOf(path)
             IN  /\ Cardinality(held) <= sorts
                 /\ (held # {} \/ (pc = "idle" /\ sorts >= 1 /\ IsScanned(path))) =>
                      LET analyzed == analyze_email_file(path)
                      IN  /\ held # {} => analyzed.kind = "Some"
                          /\ \A p \in held : p[1] = analyzed.data.category
                          /\ (pc = "idle" /\ sorts >= 1 /\ analyzed.kind = "Some")
                               => Cardinality(held) = sorts
        /\ \A c \in {"Delete", "Summarize", "Keep"} :
             ListLength(c) = stats.by_category[CategoryLabel(c)])
  /\ [][report' # report => SummarizesLists(Unwrap(report'), categories')]_vars

\* a finished batch of three records, two of them in one list, and its report
C30_Witness ==
  /\ pc = "idle" /\ sorts = 1 /\ HasReport
  /\ Report.summary.total_emails = 3
  /\ \E c \in DOMAIN categories :
       /\ Len(categories[c]) = 2
       /\ Len(Report.categories[CategoryLabel(c)]) = 2
       /\ categories[c][1].file_path # categories[c][2].file_path

\* the delays with_retry has slept, in order: Slept[k] precedes the k-th retry
Slept == retry.slept

RECURSIVE Doubled(_, _)
\* d doubled n times
Doubled(d, n) == IF n = 0 THEN d ELSE 2 * Doubled(d, n - 1)

\* C29: the delay slept before the k-th retry is initial_retry_delay doubled k-1
\* times and capped at max_retry_delay; the delays are non-decreasing and no sleep
\* between retries is longer than max_retry_delay.
C29_DelaysDoubleAndCap ==
  retry.pc # "none" =>
    /\ \A k \in 1..Len(Slept) :
         /\ Slept[k] = IF Doubled(retry.config.initial_retry_delay, k - 1)
                            < retry.config.max_retry_delay
                       THEN Doubled(retry.config.initial_retry_delay, k - 1)
                       ELSE retry.config.max_retry_delay
         /\ Slept[k] <= retry.config.max_retry_delay
    /\ \A k \in 1..(Len(Slept) - 1) : Slept[k] <= Slept[k + 1]

\* every key of the bucket map before is a key of after, with a count at least as
\* large
Grown(before, after) ==
  \A k \in DOMAIN before : k \in DOMAIN after /\ after[k] >= before[k]

\* every per-category list of before is the beginning of the list of after
Extended(before, after) ==
  \A c \in DOMAIN before :
    /\ c \in DOMAIN after
    /\ Len(after[c]) >= Len(before[c])
    /\ SubSeq(after[c], 1, Len(before[c])) = before[c]

\* C28: the statistics are accumulate-only: across folds and report generations no
\* counter decreases and no bucket key is removed; generate_report and
\* print_summary leave the statistics and the per-category lists unchanged; a second
\* sort_emails call on the same sorter adds to the existing counters.
C28_AccumulateOnly ==
  /\ [][/\ stats'.total_emails >= stats.total_emails
        /\ Grown(stats.by_category, stats'.by_category)
        /\ Grown(stats.by_type, stats'.by_type)
        /\ Grown(stats.by_sender, stats'.by_sender)
        /\ Grown(stats.by_date, stats'.by_date)
        /\ Extended(categories, categories')
        /\ (report' # report \/ summary' # summary \/ sorts' # sorts)
             => (stats' = stats /\ categories' = categories)]_vars
  /\ [](\A k \in 1..MaxBatches :
          (pc = "idle" /\ sorts = k) =>
             /\ stats.total_emails = k * Cardinality(RecordPaths)
             /\ \A c \in DOMAIN categories : Len(categories[c]) = k * Cardinality({ p \in RecordPaths : analyze_email_file(p).data.category = c }))

\* a second batch of three records has ended on a sorter whose first batch was
\* reported and printed: six records counted
C28_Witness ==
  /\ pc = "idle" /\ sorts = 2
  /\ HasReport /\ Report.summary.total_emails = 3
  /\ IsSome(summary) /\ Unwrap(summary).total_emails = 3
  /\ stats.total_emails = 6

\* merge_account has returned; Merged is the Account
HasMerged == merge.pc = "returned"
Merged == Unwrap(merge.account)

\* the per-account AccountBehavior of the merged account, when the settings hold one
HasOverride == merge.raw.name \in DOMAIN merge.settings.accounts
Override == merge.settings.accounts[merge.raw.name]

\* the value of a behaviour field by precedence: per-account override, settings
\* default, hardcoded fallback
Resolved(field, fallback) ==
  IF HasOverride /\ Override[field] # None THEN Override[field][1]
  ELSE IF merge.settings.defaults[field] # None THEN merge.settings.defaults[field][1]
  ELSE fallback

\* the folder of the merged account: the per-account folder_name, else the account
\* name
ResolvedFolder ==
  IF HasOverride /\ Override.folder_name # None THEN Override.folder_name[1]
  ELSE merge.raw.name

\* the path p with "/" for every "\"
Slashed(p) == [ i \in 1..Len(p) |-> IF p[i] = "\\" THEN "/" ELSE p[i] ]

\* the base directory joined with a folder, separators written "/": the folder
\* appended after one separator, or the folder alone when it is an absolute path
JoinedWith(base, folder) ==
  IF folder # <<>> /\ folder[1] = "/" THEN Slashed(folder)
  ELSE IF base # <<>> /\ base[Len(base)] # "/" THEN Slashed(base) \o <<"/">> \o Slashed(folder)
  ELSE Slashed(base) \o Slashed(folder)

\* C21: merge_account resolves quote_depth, skip_existing, collect_contacts,
\* skip_signature_images and delete_after_export with the precedence per-account
\* override > settings defaults > hardcoded fallback (1, true, false, false, false),
\* and export_directory is export_base_dir joined with the per-account folder_name,
\* or with the account name when no folder_name is set.
C21_MergePrecedence ==
  HasMerged =>
    /\ Merged.quote_depth = Resolved("quote_depth", 1)
    /\ Merged.skip_existing = Resolved("skip_existing", TRUE)
    /\ Merged.collect_contacts = Resolved("collect_contacts", FALSE)
    /\ Merged.skip_signature_images = Resolved("skip_signature_images", FALSE)
    /\ Merged.delete_after_export = Resolved("delete_after_export", FALSE)
    /\ merge.settings.export_base_dir # None =>
         Merged.export_directory = JoinedWith(merge.settings.export_base_dir[1], ResolvedFolder)

\* an override with folder_name and quote_depth over defaults that set both, flags
\* resolved from all three layers
C21_Witness ==
  /\ HasMerged /\ HasOverride
  /\ merge.settings.export_base_dir = Some(D_tmp_emails)
  /\ Override.folder_name = Some(F_custom) /\ merge.settings.defaults.folder_name = Some(F_shared)
  /\ Override.quote_depth = Some(5) /\ merge.settings.defaults.quote_depth = Some(3)
  /\ Override.skip_existing = None /\ merge.settings.defaults.skip_existing = Some(FALSE)
  /\ Override.collect_contacts = None /\ merge.settings.defaults.collect_contacts = None
  /\ Override.skip_signature_images = Some(FALSE)
  /\ merge.settings.defaults.skip_signature_images = Some(TRUE)
  /\ Merged.quote_depth = 5
  /\ ~Merged.skip_existing /\ ~Merged.collect_contacts /\ ~Merged.skip_signature_images
  /\ Merged.delete_after_export
  /\ Merged.export_directory = D_tmp_emails \o <<"/">> \o F_custom

-----------------------------------------------------------------------------
(* C22 *)

\* the calls of SortConfig::load in the log, and what each returned
Loads == { i \in 1..Len(store.log) : store.log[i].op = "load" }

\* the names of the members of the object text doc
MemberNames(doc) == { doc[2][i][1] : i \in 1..Len(doc[2]) }

\* the text seen by a load is an object each field of which is named at most once
\* with a value of the field's type
WellFormedObject(doc) ==
  /\ doc \notin {Missing, NotJson, Directory}
  /\ doc[1] = "obj"
  /\ \A f \in Fields :
       LET named == { i \in 1..Len(doc[2]) : doc[2][i][1] = f }
       IN  /\ Cardinality(named) <= 1
           /\ \A i \in named : accepts(f, doc[2][i][2])

\* C22: SortConfig::load on a missing file returns the all-defaults
\* configuration; a load of a present file whose fields are well formed succeeds
\* and gives every field the file does not name its default; and a load that
\* directly follows a successful save returns a configuration equal to the one
\* saved.
C22_LoadDefaultsAndRoundTrip ==
  store.pc = "ready" =>
    /\ \A i \in Loads :
         LET call == store.log[i]
         IN  /\ call.seen = Missing =>
                  call.outcome = [kind |-> "Ok", config |-> DefaultSortConfig]
             /\ WellFormedObject(call.seen) =>
                  /\ call.outcome.kind = "Ok"
                  /\ \A f \in Fields \ MemberNames(call.seen) :
                       call.outcome.config[f] = DefaultSortConfig[f]
    /\ \A i \in Loads :
         (i > 1 /\ store.log[i - 1].op = "save" /\ store.log[i - 1].outcome.kind = "Ok") =>
           store.log[i].outcome = [kind |-> "Ok", config |-> store.log[i - 1].config]

\* a file that names only some fields was loaded, then a configuration whose
\* strings need escapes was saved over it and loaded
C22_Witness ==
  /\ store.pc = "ready"
  /\ Len(store.log) = 3
  /\ store.log[1].op = "load"
  /\ store.log[1].seen = Doc_partial
  /\ store.log[1].outcome.kind = "Ok"
  /\ store.log[1].outcome.config.keep_with_attachments
  /\ store.log[2].op = "save"
  /\ store.log[2].outcome.kind = "Ok"
  /\ store.log[2].config = Cfg_escapes
  /\ store.log[3].op = "load"
  /\ store.log[3].outcome.kind = "Ok"

-----------------------------------------------------------------------------
(* C23 *)

\* a stored file that fix_email_file finds in need of fixing
NeedsFixing(file_path) ==
  files[file_path] # Unreadable /\ contains(files[file_path], S_python_object)

\* the files scan_and_fix_directory scans
ScannedFiles ==
  IF fix.directory \in DOMAIN files THEN {fix.directory}
  ELSE { p \in DOMAIN files : IsFixEntry(p) }

\* C23: with dry_run = true every turn of the loop of scan_and_fix_directory
\* leaves the content of every file unchanged and adds one to files_fixed exactly
\* when the scanned file contains a "!!python/object:" tag, so that the returned
\* files_fixed is the number of scanned files that contain the tag.
C23_DryRunCountsWithoutWriting ==
  /\ [](fix.pc = "done" /\ fix.dry_run =>
          /\ fix.stats.total_scanned = Cardinality(ScannedFiles)
          /\ fix.stats.files_fixed = Cardinality({ p \in ScannedFiles : NeedsFixing(p) }))
  /\ [][fix.pc = "scanning" /\ fix.dry_run =>
          /\ files' = files
          /\ fix.entries # <<>> =>
               fix'.stats.files_fixed =
                 fix.stats.files_fixed + (IF NeedsFixing(Head(fix.entries)) THEN 1 ELSE 0)]_vars

\* a dry run over the directory has returned: both scanned files hold a tag, one
\* with frontmatter that only a rewrite could repair and one without frontmatter,
\* both are counted and neither was written
C23_Witness ==
  /\ fix.pc = "done"
  /\ fix.dry_run
  /\ fix.directory = D_mail
  /\ files[P_one] = T_no_frontmatter
  /\ files[P_two] = T_broken
  /\ fix.stats.files_fixed = 2
  /\ fix.stats.total_scanned = 2
=============================================================================
